---- MODULE Spec2Model ----
(***************************************************************************)
(* A model of summit: the declarative configuration engine for Alpine.     *)
(* The module covers the action catalog (pkg/actions), the transactional   *)
(* executor (cmd/apply.go), the preview commands (cmd/apply.go dry-run,    *)
(* cmd/diff.go), desired-state validation (pkg/model), state inference of  *)
(* audited files (pkg/system) and the diff engine (pkg/diff).              *)
(***************************************************************************)
EXTENDS Integers, Sequences, FiniteSets, TLC

(***************************************************************************)
(* Bounds of the model.                                                    *)
(***************************************************************************)
\* the number of desired-state documents offered to a pipeline run
MaxDocs == 7
\* the number of supplementary group names offered to the diff engine
MaxGroups == 2
\* the number of ignore patterns offered to the diff engine
MaxPatterns == 4

\* the most service entries of a desired document
MaxServices == 2

\* the most entries of the root document's include list
MaxIncludes == 2

\* the number of times LoadConfig is called on one tree of documents
MaxLoads == 2

(***************************************************************************)
(* Strings.  Go strings are modelled by TLA+ strings; the helpers follow   *)
(* the strings package.                                                    *)
(***************************************************************************)
HasPrefix(s, p) == Len(s) >= Len(p) /\ SubSeq(s, 1, Len(p)) = p

HasSuffix(s, p) == Len(s) >= Len(p) /\ SubSeq(s, Len(s) - Len(p) + 1, Len(s)) = p

\* strings.TrimSpace(s) == ""
IsBlank(s) == \A i \in 1..Len(s) : SubSeq(s, i, i) \in {" ", "\t", "\n"}

\* the position of the first occurrence of the one-character string c, or 0
RECURSIVE IndexFrom(_, _, _)
IndexFrom(s, c, i) ==
  IF i > Len(s) THEN 0
  ELSE IF SubSeq(s, i, i) = c THEN i
  ELSE IndexFrom(s, c, i + 1)

Index(s, c) == IndexFrom(s, c, 1)

OctalDigits == {"0", "1", "2", "3", "4", "5", "6", "7"}

DigitVal(c) ==
  CASE c = "0" -> 0 [] c = "1" -> 1 [] c = "2" -> 2 [] c = "3" -> 3
    [] c = "4" -> 4 [] c = "5" -> 5 [] c = "6" -> 6 [] c = "7" -> 7

\* strconv.ParseUint(s, 8, 32): ok is FALSE on an empty string or a non-octal digit
RECURSIVE OctalValue(_, _, _)
OctalValue(s, i, acc) ==
  IF i > Len(s) THEN acc
  ELSE OctalValue(s, i + 1, acc * 8 + DigitVal(SubSeq(s, i, i)))

ParseUint(s) ==
  IF Len(s) > 0 /\ \A i \in 1..Len(s) : SubSeq(s, i, i) \in OctalDigits
  THEN [ok |-> TRUE, val |-> OctalValue(s, 1, 0)]
  ELSE [ok |-> FALSE, val |-> 0]

(***************************************************************************)
(* The managed host: what the command executor and the filesystem act on.  *)
(***************************************************************************)
NoFile == [exists |-> FALSE, content |-> "", mode |-> 0, owner |-> "", group |-> ""]

File(c, m, o, g) == [exists |-> TRUE, content |-> c, mode |-> m, owner |-> o, group |-> g]

\* Run(user, command): the command line is kept as verb and two arguments
Cmd(user, verb, a, b) == <<user, verb, a, b>>

\* the index of the first '-' splits `apk info` output into name and version
PackageVersionParses(out) == Index(out, "-") > 0

\* what a successful command leaves behind on the host
Effect(cmd, s) ==
  LET u == cmd[1]
      v == cmd[2]
      a == cmd[3]
      b == cmd[4]
  IN CASE v = "apk add" -> [s EXCEPT !.pkgs = @ \cup {a}]
       [] v = "apk del" -> [s EXCEPT !.pkgs = @ \ {a}]
       [] v = "rc-update add" -> [s EXCEPT !.enabled = @ \cup {<<a, b>>}]
       [] v = "rc-update del" -> [s EXCEPT !.enabled = @ \ {<<a, b>>}]
       [] v = "rc-service start" -> [s EXCEPT !.running = @ \cup {a}]
       [] v = "rc-service stop" -> [s EXCEPT !.running = @ \ {a}]
       [] v = "adduser -D" ->
            [s EXCEPT !.users = @ \cup {a}, !.groups = @ \cup {a},
                      !.primary = {m \in @ : m[1] # a} \cup {<<a, a>>},
                      !.members = @ \cup {<<a, a>>}]
       [] v = "deluser" ->
            [s EXCEPT !.users = @ \ {a},
                      !.primary = {m \in @ : m[1] # a},
                      !.groups = IF \E m \in s.members : m[2] = a /\ m[1] # a
                                 THEN @ ELSE @ \ {a},
                      !.members = {m \in @ : m[1] # a}]
       [] v = "addgroup" /\ b = "" -> [s EXCEPT !.groups = @ \cup {a}]
       [] v = "addgroup" /\ b # "" -> [s EXCEPT !.members = @ \cup {<<a, b>>}]
       [] v = "delgroup" /\ b = "" ->
            [s EXCEPT !.groups = @ \ {a}, !.members = {m \in @ : m[2] # a}]
       [] v = "delgroup" /\ b # "" -> [s EXCEPT !.members = @ \ {<<a, b>>}]
       [] v = "install" -> [s EXCEPT !.upkgs = @ \cup {<<u, a, b>>}]
       [] v = "uninstall" -> [s EXCEPT !.upkgs = @ \ {<<u, a, b>>}]
       [] OTHER -> s

\* the commands that only read the host
ReadOnlyVerbs == {"apk audit", "apk info", "apk info --who-owns", "groups",
                  "sh -c 'cat /etc/group'", "list --json", "tar -xzf"}

\* os/user lookups against the account databases
LookupUser(name, s) == name \in s.users \cup {"root"}

LookupGroup(name, s) == name \in s.groups

\* the outcome of one Apply or Rollback call
Res(s, e, a, c) == [sys |-> s, err |-> e, act |-> a, cmds |-> c]

\* commands issued in order, returning at the first error; F holds the
\* positions of the calls that the executor fails
RECURSIVE RunUntilError(_, _, _, _, _)
RunUntilError(cs, i, s, F, a) ==
  IF i > Len(cs) THEN Res(s, FALSE, a, cs)
  ELSE IF i \in F THEN Res(s, TRUE, a, SubSeq(cs, 1, i))
  ELSE RunUntilError(cs, i + 1, Effect(cs[i], s), F, a)

\* commands all attempted, the last error returned
RECURSIVE RunAllFrom(_, _, _, _)
RunAllFrom(cs, i, s, F) ==
  IF i > Len(cs) THEN s
  ELSE RunAllFrom(cs, i + 1, IF i \in F THEN s ELSE Effect(cs[i], s), F)

RunAll(cs, s, F, a) ==
  Res(RunAllFrom(cs, 1, s, F), \E i \in 1..Len(cs) : i \in F, a, cs)

(***************************************************************************)
(* The action catalog: one record per action value, private fields         *)
(* (the originals captured by Apply) included with their zero values.      *)
(***************************************************************************)
PackageInstallAction(p) == [kind |-> "PackageInstall", PackageName |-> p]

PackageRemoveAction(p) == [kind |-> "PackageRemove", PackageName |-> p]

ServiceEnableAction(n, rl) == [kind |-> "ServiceEnable", ServiceName |-> n, Runlevel |-> rl]

ServiceDisableAction(n, rl) == [kind |-> "ServiceDisable", ServiceName |-> n, Runlevel |-> rl]

UserCreateAction(u) == [kind |-> "UserCreate", UserName |-> u]

UserRemoveAction(u) == [kind |-> "UserRemove", UserName |-> u]

GroupCreateAction(g) == [kind |-> "GroupCreate", GroupName |-> g]

AddUserToGroupAction(u, g) == [kind |-> "AddUserToGroup", UserName |-> u, GroupName |-> g]

RemoveUserFromGroupAction(u, g) ==
  [kind |-> "RemoveUserFromGroup", UserName |-> u, GroupName |-> g]

FileCreateAction(p, c, m, o, g) ==
  [kind |-> "FileCreate", Path |-> p, Content |-> c, Mode |-> m, Owner |-> o, Group |-> g]

FileUpdateAction(p, c) ==
  [kind |-> "FileUpdate", Path |-> p, NewContent |-> c, origContent |-> "", origMode |-> 0]

FileDeleteAction(p) ==
  [kind |-> "FileDelete", Path |-> p, origContent |-> "", origMode |-> 0,
   origOwner |-> "", origGroup |-> ""]

FileRevertAction(p, pkg) ==
  [kind |-> "FileRevert", Path |-> p, OwnerPackage |-> pkg, modifiedContent |-> ""]

FileChmodAction(p, m) == [kind |-> "FileChmod", Path |-> p, Mode |-> m, origMode |-> 0]

FileChownAction(p, o, g) ==
  [kind |-> "FileChown", Path |-> p, Owner |-> o, Group |-> g,
   origOwner |-> "", origGroup |-> ""]

UserPackageAction(u, m, p, st) ==
  [kind |-> "UserPackage", User |-> u, Manager |-> m, Package |-> p, State |-> st]

FileKinds == {"FileCreate", "FileUpdate", "FileDelete", "FileRevert", "FileChmod", "FileChown"}

\* ---- package actions ----
PackageInstallApply(a, s, F) ==
  IF IsBlank(a.PackageName) THEN Res(s, TRUE, a, <<>>)
  ELSE RunUntilError(<<Cmd("", "apk add", a.PackageName, "")>>, 1, s, F, a)

PackageInstallRollback(a, s, F) ==
  RunUntilError(<<Cmd("", "apk del", a.PackageName, "")>>, 1, s, F, a)

PackageRemoveApply(a, s, F) ==
  IF IsBlank(a.PackageName) THEN Res(s, TRUE, a, <<>>)
  ELSE RunUntilError(<<Cmd("", "apk del", a.PackageName, "")>>, 1, s, F, a)

PackageRemoveRollback(a, s, F) ==
  RunUntilError(<<Cmd("", "apk add", a.PackageName, "")>>, 1, s, F, a)

\* ---- service actions ----
ServiceEnableApply(a, s, F) ==
  IF IsBlank(a.ServiceName) THEN Res(s, TRUE, a, <<>>)
  ELSE IF IsBlank(a.Runlevel) THEN Res(s, TRUE, a, <<>>)
  ELSE RunUntilError(<<Cmd("", "rc-update add", a.ServiceName, a.Runlevel),
                       Cmd("", "rc-service start", a.ServiceName, "")>>, 1, s, F, a)

ServiceEnableRollback(a, s, F) ==
  RunAll(<<Cmd("", "rc-service stop", a.ServiceName, ""),
           Cmd("", "rc-update del", a.ServiceName, a.Runlevel)>>, s, F, a)

ServiceDisableApply(a, s, F) ==
  IF IsBlank(a.ServiceName) THEN Res(s, TRUE, a, <<>>)
  ELSE IF IsBlank(a.Runlevel) THEN Res(s, TRUE, a, <<>>)
  ELSE RunUntilError(<<Cmd("", "rc-service stop", a.ServiceName, ""),
                       Cmd("", "rc-update del", a.ServiceName, a.Runlevel)>>, 1, s, F, a)

ServiceDisableRollback(a, s, F) ==
  RunAll(<<Cmd("", "rc-update add", a.ServiceName, a.Runlevel),
           Cmd("", "rc-service start", a.ServiceName, "")>>, s, F, a)

\* ---- user and group actions ----
UserCreateApply(a, s, F) ==
  IF IsBlank(a.UserName) THEN Res(s, TRUE, a, <<>>)
  ELSE RunUntilError(<<Cmd("", "adduser -D", a.UserName, "")>>, 1, s, F, a)

UserCreateRollback(a, s, F) ==
  RunUntilError(<<Cmd("", "deluser", a.UserName, "")>>, 1, s, F, a)

UserRemoveApply(a, s, F) ==
  IF IsBlank(a.UserName) THEN Res(s, TRUE, a, <<>>)
  ELSE RunUntilError(<<Cmd("", "deluser", a.UserName, "")>>, 1, s, F, a)

UserRemoveRollback(a, s, F) ==
  RunUntilError(<<Cmd("", "adduser -D", a.UserName, "")>>, 1, s, F, a)

GroupCreateApply(a, s, F) ==
  IF IsBlank(a.GroupName) THEN Res(s, TRUE, a, <<>>)
  ELSE RunUntilError(<<Cmd("", "addgroup", a.GroupName, "")>>, 1, s, F, a)

GroupCreateRollback(a, s, F) ==
  RunUntilError(<<Cmd("", "delgroup", a.GroupName, "")>>, 1, s, F, a)

AddUserToGroupApply(a, s, F) ==
  IF IsBlank(a.UserName) THEN Res(s, TRUE, a, <<>>)
  ELSE IF IsBlank(a.GroupName) THEN Res(s, TRUE, a, <<>>)
  ELSE RunUntilError(<<Cmd("", "addgroup", a.UserName, a.GroupName)>>, 1, s, F, a)

AddUserToGroupRollback(a, s, F) ==
  RunUntilError(<<Cmd("", "delgroup", a.UserName, a.GroupName)>>, 1, s, F, a)

RemoveUserFromGroupApply(a, s, F) ==
  IF IsBlank(a.UserName) THEN Res(s, TRUE, a, <<>>)
  ELSE IF IsBlank(a.GroupName) THEN Res(s, TRUE, a, <<>>)
  ELSE RunUntilError(<<Cmd("", "delgroup", a.UserName, a.GroupName)>>, 1, s, F, a)

RemoveUserFromGroupRollback(a, s, F) ==
  RunUntilError(<<Cmd("", "addgroup", a.UserName, a.GroupName)>>, 1, s, F, a)

\* ---- per-user package actions ----
UserPackageApply(a, s, F) ==
  IF IsBlank(a.User) THEN Res(s, TRUE, a, <<>>)
  ELSE IF IsBlank(a.Manager) THEN Res(s, TRUE, a, <<>>)
  ELSE IF IsBlank(a.Package) THEN Res(s, TRUE, a, <<>>)
  ELSE IF a.State = "present"
       THEN RunUntilError(<<Cmd(a.User, "install", a.Manager, a.Package)>>, 1, s, F, a)
  ELSE IF a.State = "absent"
       THEN RunUntilError(<<Cmd(a.User, "uninstall", a.Manager, a.Package)>>, 1, s, F, a)
  ELSE Res(s, TRUE, a, <<>>)

UserPackageRollback(a, s, F) ==
  LET oppositeState == IF a.State = "present" THEN "absent" ELSE "present"
      r == UserPackageApply([a EXCEPT !.State = oppositeState], s, F)
  IN Res(r.sys, r.err, a, r.cmds)

\* ---- file actions ----
\* afero.WriteFile: truncate an existing file (mode and ownership kept) or
\* create it with the given permissions, owned by the invoking user (root)
WriteFile(s, path, content, perm) ==
  [s EXCEPT !.files[path] =
     IF @.exists THEN [@ EXCEPT !.content = content]
     ELSE File(content, perm, "root", "root")]

\* Chown(path, uid, gid): an empty name stands for the -1 sentinel
Chown(s, path, owner, group) ==
  [s EXCEPT !.files[path].owner = IF owner = "" THEN @ ELSE owner,
            !.files[path].group = IF group = "" THEN @ ELSE group]

FileCreateApply(a, s, F) ==
  LET written == WriteFile(s, a.Path, a.Content, 420)
      mode == ParseUint(a.Mode)
      chmodded == IF a.Mode # "" THEN [written EXCEPT !.files[a.Path].mode = mode.val]
                  ELSE written
  IN IF a.Mode # "" /\ ~mode.ok THEN Res(written, TRUE, a, <<>>)
     ELSE IF a.Owner # "" /\ ~LookupUser(a.Owner, s) THEN Res(chmodded, TRUE, a, <<>>)
     ELSE IF a.Group # "" /\ ~LookupGroup(a.Group, s) THEN Res(chmodded, TRUE, a, <<>>)
     ELSE Res(Chown(chmodded, a.Path, a.Owner, a.Group), FALSE, a, <<>>)

FileCreateRollback(a, s, F) ==
  IF s.files[a.Path].exists
  THEN Res([s EXCEPT !.files[a.Path] = NoFile], FALSE, a, <<>>)
  ELSE Res(s, TRUE, a, <<>>)

FileUpdateApply(a, s, F) ==
  LET info == s.files[a.Path]
      a1 == [a EXCEPT !.origMode = info.mode, !.origContent = info.content]
  IN IF ~info.exists THEN Res(s, TRUE, a, <<>>)
     ELSE Res(WriteFile(s, a.Path, a.NewContent, a1.origMode), FALSE, a1, <<>>)

FileUpdateRollback(a, s, F) ==
  Res(WriteFile(s, a.Path, a.origContent, a.origMode), FALSE, a, <<>>)

FileDeleteApply(a, s, F) ==
  LET info == s.files[a.Path]
      a1 == [a EXCEPT !.origMode = info.mode,
                      !.origOwner = IF LookupUser(info.owner, s) THEN info.owner ELSE "",
                      !.origGroup = IF LookupGroup(info.group, s) THEN info.group ELSE "",
                      !.origContent = info.content]
  IN IF ~info.exists THEN Res(s, TRUE, a, <<>>)
     ELSE Res([s EXCEPT !.files[a.Path] = NoFile], FALSE, a1, <<>>)

FileDeleteRollback(a, s, F) ==
  LET restored == WriteFile(s, a.Path, a.origContent, a.origMode)
  IN IF a.origOwner # "" \/ a.origGroup # ""
     THEN IF a.origOwner # "" /\ ~LookupUser(a.origOwner, s) THEN Res(restored, TRUE, a, <<>>)
          ELSE IF a.origGroup # "" /\ ~LookupGroup(a.origGroup, s)
               THEN Res(restored, TRUE, a, <<>>)
          ELSE Res(Chown(restored, a.Path, a.origOwner, a.origGroup), FALSE, a, <<>>)
     ELSE Res(restored, FALSE, a, <<>>)

\* the content a package ships for a file it owns
PackagedContent == "packaged"

\* env.apkOut: the output of `apk info`; env.cached: whether the cached .apk
\* exists; env.pkgMode: the permissions of the file inside the archive
FileRevertApply(a, s, env) ==
  LET info == s.files[a.Path]
      a1 == [a EXCEPT !.modifiedContent = info.content]
      c1 == Cmd("", "apk info", a.OwnerPackage, "")
      c2 == Cmd("", "tar -xzf", a.OwnerPackage, a.Path)
  IN IF ~info.exists THEN Res(s, TRUE, a, <<>>)
     ELSE IF 1 \in env.F THEN Res(s, TRUE, a1, <<c1>>)
     ELSE IF ~PackageVersionParses(env.apkOut) THEN Res(s, TRUE, a1, <<c1>>)
     ELSE IF ~env.cached THEN Res(s, TRUE, a1, <<c1>>)
     ELSE IF 2 \in env.F THEN Res(s, TRUE, a1, <<c1, c2>>)
     ELSE Res([s EXCEPT !.files[a.Path] = File(PackagedContent, env.pkgMode, "root", "root")],
              FALSE, a1, <<c1, c2>>)

FileRevertRollback(a, s, F) ==
  Res(WriteFile(s, a.Path, a.modifiedContent, 420), FALSE, a, <<>>)

FileChmodApply(a, s, F) ==
  LET info == s.files[a.Path]
      a1 == [a EXCEPT !.origMode = info.mode]
      mode == ParseUint(a.Mode)
  IN IF ~info.exists THEN Res(s, TRUE, a, <<>>)
     ELSE IF ~mode.ok THEN Res(s, TRUE, a1, <<>>)
     ELSE Res([s EXCEPT !.files[a.Path].mode = mode.val], FALSE, a1, <<>>)

FileChmodRollback(a, s, F) ==
  IF s.files[a.Path].exists
  THEN Res([s EXCEPT !.files[a.Path].mode = a.origMode], FALSE, a, <<>>)
  ELSE Res(s, TRUE, a, <<>>)

FileChownApply(a, s, F) ==
  LET info == s.files[a.Path]
      a1 == [a EXCEPT !.origOwner = IF LookupUser(info.owner, s) THEN info.owner ELSE "",
                      !.origGroup = IF LookupGroup(info.group, s) THEN info.group ELSE ""]
  IN IF ~info.exists THEN Res(s, TRUE, a, <<>>)
     ELSE IF a.Owner # "" /\ ~LookupUser(a.Owner, s) THEN Res(s, TRUE, a1, <<>>)
     ELSE IF a.Group # "" /\ ~LookupGroup(a.Group, s) THEN Res(s, TRUE, a1, <<>>)
     ELSE Res(Chown(s, a.Path, a.Owner, a.Group), FALSE, a1, <<>>)

FileChownRollback(a, s, F) ==
  IF a.origOwner # "" /\ ~LookupUser(a.origOwner, s) THEN Res(s, TRUE, a, <<>>)
  ELSE IF a.origGroup # "" /\ ~LookupGroup(a.origGroup, s) THEN Res(s, TRUE, a, <<>>)
  ELSE IF ~s.files[a.Path].exists THEN Res(s, TRUE, a, <<>>)
  ELSE Res(Chown(s, a.Path, a.origOwner, a.origGroup), FALSE, a, <<>>)

\* ---- the Action interface: dynamic dispatch on the concrete type ----
Apply(a, s, env) ==
  CASE a.kind = "PackageInstall" -> PackageInstallApply(a, s, env.F)
    [] a.kind = "PackageRemove" -> PackageRemoveApply(a, s, env.F)
    [] a.kind = "ServiceEnable" -> ServiceEnableApply(a, s, env.F)
    [] a.kind = "ServiceDisable" -> ServiceDisableApply(a, s, env.F)
    [] a.kind = "UserCreate" -> UserCreateApply(a, s, env.F)
    [] a.kind = "UserRemove" -> UserRemoveApply(a, s, env.F)
    [] a.kind = "GroupCreate" -> GroupCreateApply(a, s, env.F)
    [] a.kind = "AddUserToGroup" -> AddUserToGroupApply(a, s, env.F)
    [] a.kind = "RemoveUserFromGroup" -> RemoveUserFromGroupApply(a, s, env.F)
    [] a.kind = "FileCreate" -> FileCreateApply(a, s, env.F)
    [] a.kind = "FileUpdate" -> FileUpdateApply(a, s, env.F)
    [] a.kind = "FileDelete" -> FileDeleteApply(a, s, env.F)
    [] a.kind = "FileRevert" -> FileRevertApply(a, s, env)
    [] a.kind = "FileChmod" -> FileChmodApply(a, s, env.F)
    [] a.kind = "FileChown" -> FileChownApply(a, s, env.F)
    [] a.kind = "UserPackage" -> UserPackageApply(a, s, env.F)

Rollback(a, s, F) ==
  CASE a.kind = "PackageInstall" -> PackageInstallRollback(a, s, F)
    [] a.kind = "PackageRemove" -> PackageRemoveRollback(a, s, F)
    [] a.kind = "ServiceEnable" -> ServiceEnableRollback(a, s, F)
    [] a.kind = "ServiceDisable" -> ServiceDisableRollback(a, s, F)
    [] a.kind = "UserCreate" -> UserCreateRollback(a, s, F)
    [] a.kind = "UserRemove" -> UserRemoveRollback(a, s, F)
    [] a.kind = "GroupCreate" -> GroupCreateRollback(a, s, F)
    [] a.kind = "AddUserToGroup" -> AddUserToGroupRollback(a, s, F)
    [] a.kind = "RemoveUserFromGroup" -> RemoveUserFromGroupRollback(a, s, F)
    [] a.kind = "FileCreate" -> FileCreateRollback(a, s, F)
    [] a.kind = "FileUpdate" -> FileUpdateRollback(a, s, F)
    [] a.kind = "FileDelete" -> FileDeleteRollback(a, s, F)
    [] a.kind = "FileRevert" -> FileRevertRollback(a, s, F)
    [] a.kind = "FileChmod" -> FileChmodRollback(a, s, F)
    [] a.kind = "FileChown" -> FileChownRollback(a, s, F)
    [] a.kind = "UserPackage" -> UserPackageRollback(a, s, F)

(***************************************************************************)
(* Go slices and maps.                                                     *)
(***************************************************************************)
Range(sq) == {sq[i] : i \in DOMAIN sq}

\* every order in which `for k := range m` may visit the keys of a map
Perms(S) ==
  {o \in [1..Cardinality(S) -> S] : \A i, j \in 1..Cardinality(S) : i # j => o[i] # o[j]}

\* the concatenations that pick one sequence from each set, in order
RECURSIVE OrderedConcat(_)
OrderedConcat(sq) ==
  IF sq = <<>> THEN {<<>>}
  ELSE {h \o t : h \in Head(sq), t \in OrderedConcat(Tail(sq))}

PermConcat_FirstKeyOnly(S, body) ==
  IF S = {} THEN {<<>>} ELSE UNION {body[k] : k \in S}

\* a loop over a map: the keys in any order, each appending one of body[k]
PermConcat(S, body) ==
  UNION {OrderedConcat([i \in 1..Cardinality(S) |-> body[o[i]]]) : o \in Perms(S)}

\* m[key] after `for _, x := range sq { m[x.<field>] = x }`: the last entry wins
LastIndex(keys, k) ==
  CHOOSE i \in DOMAIN keys : keys[i] = k /\ \A j \in DOMAIN keys : j > i => keys[j] # k

(***************************************************************************)
(* model.SystemState: validation of one desired state (pkg/model).         *)
(***************************************************************************)
PackageState(n) == [Name |-> n]

ServiceState(n, e, rl) == [Name |-> n, Enabled |-> e, Runlevel |-> rl]

UserState(n, gs, pg) == [Name |-> n, Groups |-> gs, PrimaryGroup |-> pg]

SystemConfigState(p, c, m, o, g, origin, deleted, pkg) ==
  [Path |-> p, Content |-> c, Mode |-> m, Owner |-> o, Group |-> g,
   Origin |-> origin, Deleted |-> deleted, OriginPackage |-> pkg]

UserPackageState(u, pipx, npm) == [User |-> u, Pipx |-> pipx, Npm |-> npm]

\* an empty model.SystemState
EmptyState ==
  [Packages |-> <<>>, Services |-> <<>>, Users |-> <<>>, Configs |-> <<>>,
   IgnoredConfigs |-> <<>>, UserPackages |-> <<>>]

\* loadConfigFile marks every declared config as managed
DesiredConfig(p, c, m, o, g) == SystemConfigState(p, c, m, o, g, "managed", FALSE, "")

ValidRunlevels == {"boot", "default", "sysinit", "nonetwork", "shutdown"}

\* the five runlevel directories, in the order listServices probes them
RunlevelOrder == <<"boot", "default", "sysinit", "nonetwork", "shutdown">>

ControlChars == {"\t", "\n"}

isValidPackageName(name) == \A i \in 1..Len(name) : SubSeq(name, i, i) \notin ControlChars

UserNameChars ==
  {"a", "b", "c", "d", "e", "f", "g", "h", "i", "j", "k", "l", "m", "n", "o", "p", "q",
   "r", "s", "t", "u", "v", "w", "x", "y", "z", "0", "1", "2", "3", "4", "5", "6", "7",
   "8", "9", "-", "_"}

isValidUserName(name) == \A i \in 1..Len(name) : SubSeq(name, i, i) \in UserNameChars

isValidOctalMode(mode) ==
  /\ Len(mode) = 4
  /\ SubSeq(mode, 1, 1) = "0"
  /\ \A i \in 2..4 : SubSeq(mode, i, i) \in OctalDigits

\* strings.Contains(s, sub)
Contains(s, sub) ==
  \E i \in 1..(Len(s) - Len(sub) + 1) : SubSeq(s, i, i + Len(sub) - 1) = sub

isIntrinsicIgnore(path) ==
  \/ path \in {"/etc/passwd", "/etc/group", "/etc/shadow", "/etc/apk/world"}
  \/ \E ignore \in {"/etc/apk/keys", "/etc/runlevels"} : HasPrefix(path, ignore)
  \/ HasSuffix(path, "-")
  \/ HasSuffix(path, ".bak")

\* SystemState.Validate: the set of (field, message) errors
Validate(st) ==
  {<<"packages", i, "empty">> : i \in {j \in DOMAIN st.Packages : IsBlank(st.Packages[j].Name)}}
  \cup {<<"packages", i, "invalid">> :
          i \in {j \in DOMAIN st.Packages : ~isValidPackageName(st.Packages[j].Name)}}
  \cup {<<"services", i, "empty">> :
          i \in {j \in DOMAIN st.Services : IsBlank(st.Services[j].Name)}}
  \cup {<<"services", i, "runlevel">> :
          i \in {j \in DOMAIN st.Services :
                   st.Services[j].Runlevel # "" /\ st.Services[j].Runlevel \notin ValidRunlevels}}
  \cup {<<"users", i, "empty">> : i \in {j \in DOMAIN st.Users : IsBlank(st.Users[j].Name)}}
  \cup {<<"users", i, "invalid">> :
          i \in {j \in DOMAIN st.Users : ~isValidUserName(st.Users[j].Name)}}
  \cup {<<"users", i, "group">> :
          i \in {j \in DOMAIN st.Users :
                   \E g \in Range(st.Users[j].Groups) : ~isValidUserName(g)}}
  \cup {<<"configs", i, "empty">> : i \in {j \in DOMAIN st.Configs : IsBlank(st.Configs[j].Path)}}
  \cup {<<"configs", i, "absolute">> :
          i \in {j \in DOMAIN st.Configs : ~HasPrefix(st.Configs[j].Path, "/")}}
  \cup {<<"configs", i, "dotdot">> :
          i \in {j \in DOMAIN st.Configs : Contains(st.Configs[j].Path, "..")}}
  \cup {<<"configs", i, "intrinsic">> :
          i \in {j \in DOMAIN st.Configs : isIntrinsicIgnore(st.Configs[j].Path)}}
  \cup {<<"configs", i, "mode">> :
          i \in {j \in DOMAIN st.Configs :
                   st.Configs[j].Mode # "" /\ ~isValidOctalMode(st.Configs[j].Mode)}}
  \cup {<<"configs", i, "owner">> :
          i \in {j \in DOMAIN st.Configs :
                   st.Configs[j].Owner # "" /\ ~isValidUserName(st.Configs[j].Owner)}}
  \cup {<<"configs", i, "group">> :
          i \in {j \in DOMAIN st.Configs :
                   st.Configs[j].Group # "" /\ ~isValidUserName(st.Configs[j].Group)}}
  \cup {<<"user-packages", i, "user">> :
          i \in {j \in DOMAIN st.UserPackages :
                   st.UserPackages[j].User \notin {st.Users[k].Name : k \in DOMAIN st.Users}}}
  \cup {<<"user-packages", i, "package">> :
          i \in {j \in DOMAIN st.UserPackages :
                   \E n \in Range(st.UserPackages[j].Pipx) \cup Range(st.UserPackages[j].Npm) :
                     ~isValidPackageName(n)}}

(***************************************************************************)
(* The diff engine (pkg/diff).                                             *)
(***************************************************************************)
\* strings.Index(s, sub) + 1, or 0 when sub does not occur
RECURSIVE IndexStrFrom(_, _, _)
IndexStrFrom(s, sub, i) ==
  IF i + Len(sub) - 1 > Len(s) THEN 0
  ELSE IF SubSeq(s, i, i + Len(sub) - 1) = sub THEN i
  ELSE IndexStrFrom(s, sub, i + 1)

IndexStr(s, sub) == IndexStrFrom(s, sub, 1)

\* filepath.Match for patterns made of literals, '*' and '?'
RECURSIVE Match(_, _, _, _)
Match(pattern, i, name, j) ==
  IF i > Len(pattern) THEN j > Len(name)
  ELSE LET c == SubSeq(pattern, i, i)
       IN IF c = "*"
          THEN \E k \in j..(Len(name) + 1) :
                 /\ \A l \in j..(k - 1) : SubSeq(name, l, l) # "/"
                 /\ Match(pattern, i + 1, name, k)
          ELSE IF c = "?"
          THEN j <= Len(name) /\ SubSeq(name, j, j) # "/" /\ Match(pattern, i + 1, name, j + 1)
          ELSE j <= Len(name) /\ SubSeq(name, j, j) = c /\ Match(pattern, i + 1, name, j + 1)

MatchesGlob(pattern, path) ==
  IF Contains(pattern, "**")
  THEN LET at == IndexStr(pattern, "**")
           part0 == SubSeq(pattern, 1, at - 1)
           part1 == SubSeq(pattern, at + 2, Len(pattern))
           prefix == IF HasSuffix(part0, "/*") THEN SubSeq(part0, 1, Len(part0) - 2)
                     ELSE IF HasSuffix(part0, "*") THEN SubSeq(part0, 1, Len(part0) - 1)
                     ELSE part0
           suffix == IF HasPrefix(part1, "/*") THEN SubSeq(part1, 3, Len(part1))
                     ELSE IF HasPrefix(part1, "*") THEN SubSeq(part1, 2, Len(part1))
                     ELSE part1
       IN IF ~Contains(part1, "**")
          THEN HasPrefix(path, prefix) /\ HasSuffix(path, suffix)
          ELSE FALSE
  ELSE Match(pattern, 1, path, 1)

\* ---- dependency validation ----
validateUserPackageDependencies(d) ==
  LET desiredSystemPackages == {d.Packages[i].Name : i \in DOMAIN d.Packages}
      pipx == \E i \in DOMAIN d.UserPackages : Len(d.UserPackages[i].Pipx) > 0
      npm == \E i \in DOMAIN d.UserPackages : Len(d.UserPackages[i].Npm) > 0
  IN (IF pipx /\ "pipx" \notin desiredSystemPackages THEN <<"pipx required">> ELSE <<>>)
     \o (IF npm /\ "npm" \notin desiredSystemPackages THEN <<"npm required">> ELSE <<>>)

validateServiceDependencies(d, c) ==
  LET availableServices == {c.Services[i].Name : i \in DOMAIN c.Services}
      missing(s) == IF s.Name \notin availableServices
                    THEN <<"service not found: " \o s.Name>> ELSE <<>>
      RECURSIVE each(_)
      each(i) == IF i > Len(d.Services) THEN <<>> ELSE missing(d.Services[i]) \o each(i + 1)
  IN each(1)

validateUserDependencies(d, c) ==
  LET currentUserMap == {c.Users[i].Name : i \in DOMAIN c.Users}
      missing(up) == IF up.User \notin currentUserMap
                     THEN <<"user not found: " \o up.User>> ELSE <<>>
      RECURSIVE each(_)
      each(i) == IF i > Len(d.UserPackages) THEN <<>>
                 ELSE missing(d.UserPackages[i]) \o each(i + 1)
  IN each(1)

ValidateDependencies_FirstOnly(d, c) ==
  LET errors == validateUserPackageDependencies(d) \o validateServiceDependencies(d, c)
                  \o validateUserDependencies(d, c)
  IN IF errors = <<>> THEN <<>> ELSE <<errors[1]>>

\* the batched error list; the error is nil when it is empty
ValidateDependencies(d, c) ==
  validateUserPackageDependencies(d) \o validateServiceDependencies(d, c)
    \o validateUserDependencies(d, c)

\* ---- packages ----
calculatePackageActions(d, c) ==
  LET desiredMap == {d[i].Name : i \in DOMAIN d}
      currentMap == {c[i].Name : i \in DOMAIN c}
  IN {x \o y :
        x \in PermConcat(desiredMap,
                [n \in desiredMap |-> IF n \notin currentMap
                                      THEN {<<PackageInstallAction(n)>>} ELSE {<<>>}]),
        y \in PermConcat(currentMap,
                [n \in currentMap |-> IF n \notin desiredMap
                                      THEN {<<PackageRemoveAction(n)>>} ELSE {<<>>}])}

\* ---- services ----
needsEnable_Always(desiredService, currentService) == desiredService.Enabled

\* the test of the first branch for a service on both sides
needsEnable(desiredService, currentService) ==
  desiredService.Enabled /\ ~currentService.Enabled

calculateServiceActions(d, c) ==
  LET dnames == [i \in DOMAIN d |-> d[i].Name]
      cnames == [i \in DOMAIN c |-> c[i].Name]
      desiredMap == [n \in Range(dnames) |-> d[LastIndex(dnames, n)]]
      currentMap == [n \in Range(cnames) |-> c[LastIndex(cnames, n)]]
      forDesired(n) ==
        IF n \in DOMAIN currentMap
        THEN IF needsEnable(desiredMap[n], currentMap[n])
             THEN <<ServiceEnableAction(n, desiredMap[n].Runlevel)>>
             ELSE IF ~desiredMap[n].Enabled /\ currentMap[n].Enabled
             THEN <<ServiceDisableAction(n, currentMap[n].Runlevel)>>
             ELSE <<>>
        ELSE IF desiredMap[n].Enabled
             THEN <<ServiceEnableAction(n, desiredMap[n].Runlevel)>>
             ELSE <<>>
      forCurrent(n) ==
        IF n \notin DOMAIN desiredMap /\ currentMap[n].Enabled
        THEN <<ServiceDisableAction(n, currentMap[n].Runlevel)>>
        ELSE <<>>
  IN {x \o y :
        x \in PermConcat(DOMAIN desiredMap, [n \in DOMAIN desiredMap |-> {forDesired(n)}]),
        y \in PermConcat(DOMAIN currentMap, [n \in DOMAIN currentMap |-> {forCurrent(n)}])}

\* ---- users and groups ----
\* the group names in the output of `sh -c 'cat /etc/group'`, one line each
inferCurrentSystemGroups(output) ==
  LET name(line) == IF Index(line, ":") = 0 THEN line
                    ELSE SubSeq(line, 1, Index(line, ":") - 1)
  IN {name(output[i]) :
        i \in {j \in DOMAIN output :
                 Len(output[j]) > 0 /\ ~HasPrefix(output[j], "#") /\ name(output[j]) # ""}}

\* "Skip removing from primary group"
skipRemoval_Never(groupName, currentUser) == FALSE
skipRemoval(groupName, currentUser) == groupName = currentUser.PrimaryGroup

groupExists_Never(currentSystemGroups, groupName) == FALSE

\* the lookup that guards "Create missing groups"
groupExists(currentSystemGroups, groupName) == groupName \in currentSystemGroups

newUserActions_CreateLast(desiredUser) ==
  [k \in DOMAIN desiredUser.Groups |->
     AddUserToGroupAction(desiredUser.Name, desiredUser.Groups[k])]
  \o <<UserCreateAction(desiredUser.Name)>>

\* "Create new user and add to groups"
newUserActions(desiredUser) ==
  <<UserCreateAction(desiredUser.Name)>>
  \o [k \in DOMAIN desiredUser.Groups |->
        AddUserToGroupAction(desiredUser.Name, desiredUser.Groups[k])]

calculateUserActions(d, c, output) ==
  LET currentSystemGroups == inferCurrentSystemGroups(output)
      requiredGroups == UNION {Range(d[i].Groups) : i \in DOMAIN d}
      creates ==
        PermConcat(requiredGroups,
          [g \in requiredGroups |-> IF ~groupExists(currentSystemGroups, g)
                                    THEN {<<GroupCreateAction(g)>>} ELSE {<<>>}])
      cnames == [i \in DOMAIN c |-> c[i].Name]
      currentUsersMap == [n \in Range(cnames) |-> c[LastIndex(cnames, n)]]
      forUser(u) ==
        IF u.Name \notin DOMAIN currentUsersMap
        THEN {newUserActions(u)}
        ELSE LET currentUser == currentUsersMap[u.Name]
                 desiredGroups == Range(u.Groups)
                 currentGroups == Range(currentUser.Groups)
             IN {x \o y :
                   x \in PermConcat(desiredGroups,
                           [g \in desiredGroups |->
                              IF g \notin currentGroups
                              THEN {<<AddUserToGroupAction(u.Name, g)>>} ELSE {<<>>}]),
                   y \in PermConcat(currentGroups,
                           [g \in currentGroups |->
                              IF g \notin desiredGroups /\ ~skipRemoval(g, currentUser)
                              THEN {<<RemoveUserFromGroupAction(u.Name, g)>>} ELSE {<<>>}])}
      desiredMap == {d[k].Name : k \in DOMAIN d}
      removes ==
        PermConcat(DOMAIN currentUsersMap,
          [n \in DOMAIN currentUsersMap |-> IF n \notin desiredMap
                                            THEN {<<UserRemoveAction(n)>>} ELSE {<<>>}])
  IN {x \o y \o z :
        x \in creates, y \in OrderedConcat([k \in DOMAIN d |-> forUser(d[k])]), z \in removes}

\* ---- configs ----
\* the closure isIgnored of calculateConfigActions over desired.IgnoredConfigs
isIgnored_Never(patterns, path) == FALSE
isIgnored(patterns, path) == \E k \in DOMAIN patterns : MatchesGlob(patterns[k], path)

\* both sides: the mode is changed when one is declared and it differs
needsChmod_Unconditional(desiredConfig, currentConfig) ==
  desiredConfig.Mode # currentConfig.Mode
needsChmod(desiredConfig, currentConfig) ==
  desiredConfig.Mode # "" /\ desiredConfig.Mode # currentConfig.Mode

\* current only, origin user-created: deleted on request, else a warning
unmanagedFileAction_AlwaysDelete(path, pruneUnmanaged) == <<FileDeleteAction(path)>>
unmanagedFileAction(path, pruneUnmanaged) ==
  IF pruneUnmanaged THEN <<FileDeleteAction(path)>> ELSE <<>>

calculateConfigActions(d, c, pruneUnmanaged) ==
  LET dkept == SelectSeq(d.Configs, LAMBDA x : ~isIgnored(d.IgnoredConfigs, x.Path))
      ckept == SelectSeq(c.Configs, LAMBDA x : ~isIgnored(d.IgnoredConfigs, x.Path))
      dpaths == [k \in DOMAIN dkept |-> dkept[k].Path]
      cpaths == [k \in DOMAIN ckept |-> ckept[k].Path]
      desiredMap == [p \in Range(dpaths) |-> dkept[LastIndex(dpaths, p)]]
      currentMap == [p \in Range(cpaths) |-> ckept[LastIndex(cpaths, p)]]
      forDesired(path) ==
        LET desiredConfig == desiredMap[path]
        IN IF path \in DOMAIN currentMap
           THEN LET currentConfig == currentMap[path]
                IN (IF desiredConfig.Content # currentConfig.Content
                    THEN <<FileUpdateAction(path, desiredConfig.Content)>> ELSE <<>>)
                   \o (IF needsChmod(desiredConfig, currentConfig)
                       THEN <<FileChmodAction(path, desiredConfig.Mode)>> ELSE <<>>)
                   \o (IF \/ (desiredConfig.Owner # "" /\ desiredConfig.Owner # currentConfig.Owner)
                          \/ (desiredConfig.Group # "" /\ desiredConfig.Group # currentConfig.Group)
                       THEN <<FileChownAction(path, desiredConfig.Owner, desiredConfig.Group)>>
                       ELSE <<>>)
           ELSE <<FileCreateAction(path, desiredConfig.Content, desiredConfig.Mode,
                                   desiredConfig.Owner, desiredConfig.Group)>>
      forCurrent(path) ==
        LET currentConfig == currentMap[path]
        IN IF path \in DOMAIN desiredMap THEN <<>>
           ELSE IF currentConfig.Origin = "user-created"
           THEN unmanagedFileAction(path, pruneUnmanaged)
           ELSE IF currentConfig.Origin = "package-modified"
           THEN <<FileRevertAction(path, currentConfig.OriginPackage)>>
           ELSE <<>>
  IN {x \o y :
        x \in PermConcat(DOMAIN desiredMap, [p \in DOMAIN desiredMap |-> {forDesired(p)}]),
        y \in PermConcat(DOMAIN currentMap, [p \in DOMAIN currentMap |-> {forCurrent(p)}])}

\* ---- per-user packages ----
\* reply: the executor's answer to `<manager> list --json` run as the user
compareUserPackages(user, manager, desiredPackages, reply) ==
  IF reply.err \/ ~reply.parses THEN {<<>>}
  ELSE LET currentMap == reply.pkgs
           desiredMap == Range(desiredPackages)
       IN {x \o y :
             x \in PermConcat(desiredMap,
                     [n \in desiredMap |->
                        IF n \notin currentMap
                        THEN {<<UserPackageAction(user, manager, n, "present")>>} ELSE {<<>>}]),
             y \in PermConcat(currentMap,
                     [n \in currentMap |->
                        IF n \notin desiredMap
                        THEN {<<UserPackageAction(user, manager, n, "absent")>>} ELSE {<<>>}])}

calculateUserPackageActions(d, replies) ==
  LET forEntry(up) ==
        {x \o y :
           x \in (IF Len(up.Pipx) > 0
                  THEN compareUserPackages(up.User, "pipx", up.Pipx, replies[<<up.User, "pipx">>])
                  ELSE {<<>>}),
           y \in (IF Len(up.Npm) > 0
                  THEN compareUserPackages(up.User, "npm", up.Npm, replies[<<up.User, "npm">>])
                  ELSE {<<>>})}
  IN OrderedConcat([k \in DOMAIN d.UserPackages |-> forEntry(d.UserPackages[k])])

\* the commands CalculatePlan hands to the executor
CalculatePlanCommands(d, c, io) ==
  LET listCmds(up) ==
        (IF Len(up.Pipx) > 0 THEN <<Cmd(up.User, "list --json", "pipx", "")>> ELSE <<>>)
        \o (IF Len(up.Npm) > 0 THEN <<Cmd(up.User, "list --json", "npm", "")>> ELSE <<>>)
      RECURSIVE each(_)
      each(k) == IF k > Len(d.UserPackages) THEN <<>>
                 ELSE listCmds(d.UserPackages[k]) \o each(k + 1)
  IN IF ValidateDependencies(d, c) # <<>> THEN <<>>
     ELSE IF io.groupErr THEN <<Cmd("", "sh -c 'cat /etc/group'", "", "")>>
     ELSE <<Cmd("", "sh -c 'cat /etc/group'", "", "")>> \o each(1)

\* io: the executor's answers; the result is the error's origin ("" for
\* nil) and every plan the map iteration orders allow
CalculatePlan(d, c, io, pruneUnmanaged) ==
  IF ValidateDependencies(d, c) # <<>> THEN [err |-> "dependency", plans |-> {}]
  ELSE IF io.groupErr THEN [err |-> "groups", plans |-> {}]
  ELSE [err |-> "",
        plans |-> {p1 \o p2 \o p3 \o p4 \o p5 :
                     p1 \in calculatePackageActions(d.Packages, c.Packages),
                     p2 \in calculateServiceActions(d.Services, c.Services),
                     p3 \in calculateUserActions(d.Users, c.Users, io.groupLines),
                     p4 \in calculateConfigActions(d, c, pruneUnmanaged),
                     p5 \in calculateUserPackageActions(d, io.lists)}]

(***************************************************************************)
(* SystemState.Sort (pkg/model).                                           *)
(***************************************************************************)
\* the characters of names and paths, in byte order
Alphabet == "-./0123456789_abcdefghijklmnopqrstuvwxyz"

CharCode(c) == Index(Alphabet, c)

\* Go's < on strings: bytewise lexicographic order
RECURSIVE StrLessFrom(_, _, _)
StrLessFrom(a, b, i) ==
  IF i > Len(b) THEN FALSE
  ELSE IF i > Len(a) THEN TRUE
  ELSE IF SubSeq(a, i, i) = SubSeq(b, i, i) THEN StrLessFrom(a, b, i + 1)
  ELSE CharCode(SubSeq(a, i, i)) < CharCode(SubSeq(b, i, i))

StrLess(a, b) == StrLessFrom(a, b, 1)

\* sort.Slice(sq, less) with keys[i] the sort key of sq[i]: a reordering in
\* which no element is less than an earlier one (the sort is not stable)
SortSlice(sq, keys) ==
  {[k \in DOMAIN sq |-> sq[o[k]]] :
     o \in {q \in Perms(DOMAIN sq) :
              \A x, y \in DOMAIN sq : x < y => ~StrLess(keys[q[y]], keys[q[x]])}}

Sort(st) ==
  {[st EXCEPT !.Packages = p, !.Services = sv, !.Users = u, !.Configs = c,
              !.UserPackages = up] :
     p \in SortSlice(st.Packages, [k \in DOMAIN st.Packages |-> st.Packages[k].Name]),
     sv \in SortSlice(st.Services, [k \in DOMAIN st.Services |-> st.Services[k].Name]),
     u \in SortSlice(st.Users, [k \in DOMAIN st.Users |-> st.Users[k].Name]),
     c \in SortSlice(st.Configs, [k \in DOMAIN st.Configs |-> st.Configs[k].Path]),
     up \in SortSlice(st.UserPackages,
                      [k \in DOMAIN st.UserPackages |-> st.UserPackages[k].User])}

(***************************************************************************)
(* State inference (pkg/system).                                           *)
(***************************************************************************)
\* the elements of a set in the order the host stores them
RECURSIVE SetToSeq(_)
SetToSeq(S) ==
  IF S = {} THEN <<>>
  ELSE LET x == CHOOSE y \in S : TRUE IN <<x>> \o SetToSeq(S \ {x})

\* fmt.Sprintf("%o", n)
RECURSIVE FormatOctal(_)
FormatOctal(n) ==
  LET digit == SubSeq("01234567", (n % 8) + 1, (n % 8) + 1)
  IN IF n < 8 THEN digit ELSE FormatOctal(n \div 8) \o digit

\* strings.TrimSpace on the left
RECURSIVE TrimLeft(_)
TrimLeft(s) ==
  IF Len(s) > 0 /\ SubSeq(s, 1, 1) \in {" ", "\t"} THEN TrimLeft(SubSeq(s, 2, Len(s))) ELSE s

\* the report of `apk audit` for the host: one line per file that differs
\* from what the packages installed, with the path relative to the root
AuditLine(s, path) ==
  LET f == s.files[path]
      rel == SubSeq(path, 2, Len(path))
  IN IF s.pkgfiles[path] # ""
     THEN IF ~f.exists THEN <<"X " \o rel>>
          ELSE IF f.content # PackagedContent THEN <<"U " \o rel>>
          ELSE <<>>
     ELSE IF f.exists THEN <<"A " \o rel>> ELSE <<>>

ApkAudit(s) ==
  LET paths == SetToSeq(DOMAIN s.files)
      RECURSIVE each(_)
      each(k) == IF k > Len(paths) THEN <<>> ELSE AuditLine(s, paths[k]) \o each(k + 1)
  IN each(1)

listInstalledPackages(s) == [k \in 1..Cardinality(s.pkgs) |-> PackageState(SetToSeq(s.pkgs)[k])]

listServices(s) ==
  LET names == SetToSeq(s.initd)
      hits(n) == {k \in DOMAIN RunlevelOrder : <<n, RunlevelOrder[k]>> \in s.enabled}
      first(n) == CHOOSE k \in hits(n) : \A l \in hits(n) : k <= l
  IN [k \in DOMAIN names |->
        IF hits(names[k]) = {} THEN ServiceState(names[k], FALSE, "")
        ELSE ServiceState(names[k], TRUE, RunlevelOrder[first(names[k])])]

\* listGroupsForUser: the output of `groups <name>`
listGroupsForUser(s, userName) == SetToSeq({m[2] : m \in {x \in s.members : x[1] = userName}})

listUsers(s) ==
  LET names == SetToSeq(s.users)
      primary(n) == CHOOSE g \in {x[2] : x \in {y \in s.primary : y[1] = n}} : TRUE
  IN [k \in DOMAIN names |-> UserState(names[k], listGroupsForUser(s, names[k]), primary(names[k]))]

\* the three filters of listSystemConfigs on an audited path
skippedByListSystemConfigs(filePath) ==
  \/ HasPrefix(filePath, "/etc/runlevels")
  \/ HasSuffix(filePath, "-")
  \/ HasSuffix(filePath, ".bak")
  \/ \E ignoredPath \in {"/etc/passwd", "/etc/group", "/etc/shadow", "/etc/apk/world",
                         "/etc/apk/keys", "/etc/apk/arch",
                         "/etc/apk/protected_paths.d/ca-certificates.list"} :
       HasPrefix(filePath, ignoredPath)

\* the paths listSystemConfigs never lists, in the order it tries them
ignoredPaths ==
  <<"/etc/passwd", "/etc/group", "/etc/shadow", "/etc/apk/world", "/etc/apk/keys",
    "/etc/apk/arch", "/etc/apk/protected_paths.d/ca-certificates.list">>

\* the reason listSystemConfigs records for a path one of its filters skips
ignoreReason(filePath) ==
  IF HasPrefix(filePath, "/etc/runlevels") THEN "intrinsic: runlevel files"
  ELSE IF HasSuffix(filePath, "-") \/ HasSuffix(filePath, ".bak") THEN "intrinsic: backup file"
  ELSE LET hits == {k \in DOMAIN ignoredPaths : HasPrefix(filePath, ignoredPaths[k])}
       IN "intrinsic: " \o ignoredPaths[CHOOSE k \in hits : \A l \in hits : k <= l]

\* the second result of listSystemConfigs: every filter skips the line
\* (`continue`) whatever the flag is, and records it unless the flag is set
listIgnoredConfigs(output, skipIntrinsicIgnores) ==
  LET parse(line) ==
        LET rest == TrimLeft(SubSeq(line, 2, Len(line)))
            filePath == IF HasPrefix(rest, "/") THEN rest ELSE "/" \o rest
        IN IF Len(line) < 2 \/ ~HasPrefix(filePath, "/etc") THEN <<>>
           ELSE IF skippedByListSystemConfigs(filePath) /\ ~skipIntrinsicIgnores
           THEN <<[Path |-> filePath, Reason |-> ignoreReason(filePath)]>>
           ELSE <<>>
      RECURSIVE each(_)
      each(k) == IF k > Len(output) THEN <<>> ELSE parse(output[k]) \o each(k + 1)
  IN each(1)

\* the first result of listSystemConfigs; output: the lines of `apk audit`;
\* whoOwnsErr: `apk info --who-owns` failed
listSystemConfigs(s, output, whoOwnsErr) ==
  LET parse(line) ==
        LET fileStatus == SubSeq(line, 1, 1)
            rest == TrimLeft(SubSeq(line, 2, Len(line)))
            filePath == IF HasPrefix(rest, "/") THEN rest ELSE "/" \o rest
            f == s.files[filePath]
            origin == IF fileStatus = "A" THEN "user-created"
                      ELSE IF fileStatus = "U" THEN "package-modified" ELSE ""
        IN IF Len(line) < 2 \/ ~HasPrefix(filePath, "/etc") \/ skippedByListSystemConfigs(filePath)
           THEN <<>>
           ELSE IF fileStatus = "X"
           THEN <<SystemConfigState(filePath, "", "", "", "", "", TRUE, "")>>
           ELSE <<SystemConfigState(filePath, f.content, "0" \o FormatOctal(f.mode),
                                    IF LookupUser(f.owner, s) THEN f.owner ELSE "1000",
                                    IF LookupGroup(f.group, s) THEN f.group ELSE "1000",
                                    origin, FALSE,
                                    IF fileStatus = "U" /\ ~whoOwnsErr
                                    THEN s.pkgfiles[filePath] ELSE "")>>
      RECURSIVE each(_)
      each(k) == IF k > Len(output) THEN <<>> ELSE parse(output[k]) \o each(k + 1)
  IN each(1)

\* the commands InferSystemState hands to the executor; io.inferErr names
\* the step that fails ("" for none)
InferCommands(s, io) ==
  LET names == SetToSeq(s.users)
      groupsCmds == [k \in DOMAIN names |-> Cmd("", "groups", names[k], "")]
      audit == <<Cmd("", "apk audit", "", "")>>
      configs == listSystemConfigs(s, ApkAudit(s), io.whoOwnsErr)
      whoOwns == IF \E k \in DOMAIN configs : configs[k].Origin = "package-modified"
                 THEN <<Cmd("", "apk info --who-owns", "", "")>> ELSE <<>>
  IN IF io.inferErr = "world" THEN <<>>
     ELSE IF io.inferErr = "groups" THEN IF Len(names) > 0 THEN <<groupsCmds[1]>> ELSE <<>>
     ELSE IF io.inferErr = "audit" THEN groupsCmds \o audit
     ELSE groupsCmds \o audit \o whoOwns

InferSystemState(s, io, skipIntrinsicIgnores) ==
  IF io.inferErr = "world" \/ io.inferErr = "audit"
     \/ (io.inferErr = "groups" /\ s.users # {})
  THEN [err |-> TRUE, state |-> EmptyState, ignored |-> <<>>]
  ELSE [err |-> FALSE,
        ignored |-> listIgnoredConfigs(ApkAudit(s), skipIntrinsicIgnores),
        state |-> [Packages |-> listInstalledPackages(s),
                   Services |-> listServices(s),
                   Users |-> listUsers(s),
                   Configs |-> listSystemConfigs(s, ApkAudit(s), io.whoOwnsErr),
                   IgnoredConfigs |-> <<>>,
                   UserPackages |-> <<>>]]

(***************************************************************************)
(* State.                                                                  *)
(***************************************************************************)
(***************************************************************************)
(* The config composer (pkg/config): include paths and merging.            *)
(***************************************************************************)
\* strings.Split(s, "/")
RECURSIVE Split(_)
Split(s) ==
  IF Index(s, "/") = 0 THEN <<s>>
  ELSE <<SubSeq(s, 1, Index(s, "/") - 1)>> \o Split(SubSeq(s, Index(s, "/") + 1, Len(s)))

RECURSIVE JoinSegments(_)
JoinSegments(segs) ==
  IF segs = <<>> THEN ""
  ELSE IF Len(segs) = 1 THEN segs[1]
  ELSE segs[1] \o "/" \o JoinSegments(Tail(segs))

\* filepath.Clean on the segments: "" and "." are dropped, ".." takes the
\* segment before it away (at the root it is dropped, in front of a
\* relative path it stays)
RECURSIVE CleanSegments(_, _, _)
CleanSegments(segs, acc, rooted) ==
  IF segs = <<>> THEN acc
  ELSE LET h == Head(segs)
       IN IF h = "" \/ h = "." THEN CleanSegments(Tail(segs), acc, rooted)
          ELSE IF h = ".."
          THEN IF acc # <<>> /\ acc[Len(acc)] # ".."
               THEN CleanSegments(Tail(segs), SubSeq(acc, 1, Len(acc) - 1), rooted)
               ELSE IF rooted THEN CleanSegments(Tail(segs), acc, rooted)
               ELSE CleanSegments(Tail(segs), Append(acc, ".."), rooted)
          ELSE CleanSegments(Tail(segs), Append(acc, h), rooted)

\* filepath.Clean
Clean(path) ==
  LET rooted == HasPrefix(path, "/")
      body == JoinSegments(CleanSegments(Split(path), <<>>, rooted))
  IN IF rooted THEN "/" \o body
     ELSE IF body = "" THEN "." ELSE body

\* filepath.IsAbs
IsAbs(path) == HasPrefix(path, "/")

RECURSIVE LastSlash(_, _)
LastSlash(path, i) ==
  IF i = 0 THEN 0
  ELSE IF SubSeq(path, i, i) = "/" THEN i
  ELSE LastSlash(path, i - 1)

\* filepath.Dir
Dir(path) == Clean(SubSeq(path, 1, LastSlash(path, Len(path))))

\* filepath.Join of two elements: empty elements are ignored
Join(a, b) ==
  IF a = "" /\ b = "" THEN ""
  ELSE IF a = "" THEN Clean(b)
  ELSE IF b = "" THEN Clean(a)
  ELSE Clean(a \o "/" \o b)

\* the working directory of the process
Cwd == "/etc/summit"

\* filepath.Abs
Abs(path) == IF IsAbs(path) THEN Clean(path) ELSE Join(Cwd, path)

resolveIncludePath(baseFile, includePath) ==
  IF IsAbs(includePath) THEN includePath ELSE Join(Dir(baseFile), includePath)

\* the part of a parsed document that is a desired state
StateOf(cfg) ==
  [Packages |-> cfg.Packages, Services |-> cfg.Services, Users |-> cfg.Users,
   Configs |-> cfg.Configs, IgnoredConfigs |-> cfg.IgnoredConfigs,
   UserPackages |-> cfg.UserPackages]

\* loadConfigFile: files holds the documents on disk that can be read and
\* parsed; a relative file name is opened from the working directory
loadConfigFile(files, filename) ==
  IF Abs(filename) \notin DOMAIN files
  THEN [err |-> "open " \o filename \o ": no such file or directory",
        cfg |-> [Includes |-> <<>>] @@ EmptyState]
  ELSE [err |-> "", cfg |-> files[Abs(filename)]]

circularIncludeError_Cyclic(baseFile) == "cyclic include detected: " \o baseFile

\* the error of processIncludesRecursive on a file it has already visited
circularIncludeError(baseFile) == "circular include detected: " \o baseFile

validateIncludes(includes) ==
  {<<"includes", i, "empty">> : i \in {j \in DOMAIN includes : IsBlank(includes[j])}}

\* the strings of a set in ascending order (sort.Strings, or sort.Slice on
\* keys that differ)
RECURSIVE SortedStrings(_)
SortedStrings(S) ==
  IF S = {} THEN <<>>
  ELSE LET least == CHOOSE x \in S : \A y \in S : ~StrLess(y, x)
       IN <<least>> \o SortedStrings(S \ {least})

\* the values of a map in the order of their keys
MapValuesByKey(m) == [k \in 1..Cardinality(DOMAIN m) |-> m[SortedStrings(DOMAIN m)[k]]]

\* m after `for _, x := range sq { m[key(x)] = x }`
RECURSIVE PutAll(_, _, _)
PutAll(m, sq, keys) ==
  IF sq = <<>> THEN m
  ELSE PutAll([k \in DOMAIN m \cup {keys[1]} |-> IF k = keys[1] THEN sq[1] ELSE m[k]],
              Tail(sq), Tail(keys))

EmptyMap == [k \in {} |-> k]

\* the entries of sq whose key was not seen before, appended to result
RECURSIVE AppendUnseen(_, _, _)
AppendUnseen(result, seen, sq) ==
  IF sq = <<>> THEN result
  ELSE IF sq[1] \in seen THEN AppendUnseen(result, seen, Tail(sq))
  ELSE AppendUnseen(Append(result, sq[1]), seen \cup {sq[1]}, Tail(sq))

mergePackages(base, override) ==
  LET names(sq) == [k \in DOMAIN sq |-> sq[k].Name]
      kept == AppendUnseen(<<>>, Range(names(base)), names(override))
  IN base \o [k \in DOMAIN kept |-> PackageState(kept[k])]

\* the key of serviceMap
serviceKey(svc) == svc.Name \o ":" \o svc.Runlevel

\* the final sort is by name and then runlevel; the keys of the map differ
\* in one of the two, so the order of the keys is the order of the entries
mergeServices(base, override) ==
  LET all == base \o override
      m == PutAll(EmptyMap, all, [k \in DOMAIN all |-> serviceKey(all[k])])
      pairs == {<<m[k].Name, m[k].Runlevel>> : k \in DOMAIN m}
      less(a, b) == IF a[1] = b[1] THEN StrLess(a[2], b[2]) ELSE StrLess(a[1], b[1])
      RECURSIVE sorted(_)
      sorted(S) ==
        IF S = {} THEN <<>>
        ELSE LET least == CHOOSE x \in S : \A y \in S : ~less(y, x)
             IN <<least>> \o sorted(S \ {least})
      entry(pair) == CHOOSE k \in DOMAIN m : m[k].Name = pair[1] /\ m[k].Runlevel = pair[2]
  IN [k \in 1..Cardinality(pairs) |-> m[entry(sorted(pairs)[k])]]

\* the maps userMap can be after the override users were merged in: the
\* groups of a user on both sides are the union, in map iteration order
RECURSIVE mergeUserMaps(_, _)
mergeUserMaps(m, override) ==
  IF override = <<>> THEN {m}
  ELSE LET user == override[1]
           stored ==
             IF user.Name \in DOMAIN m
             THEN LET groupSet == Range(m[user.Name].Groups) \cup Range(user.Groups)
                  IN {[user EXCEPT !.Groups = mergedGroups] : mergedGroups \in Perms(groupSet)}
             ELSE {user}
       IN UNION {mergeUserMaps([k \in DOMAIN m \cup {user.Name} |->
                                  IF k = user.Name THEN u ELSE m[k]], Tail(override)) :
                   u \in stored}

mergeUsers(base, override) ==
  LET userMap == PutAll(EmptyMap, base, [k \in DOMAIN base |-> base[k].Name])
  IN {MapValuesByKey(m) : m \in mergeUserMaps(userMap, override)}

mergeSystemConfigs_FirstWins(base, override) ==
  LET all == override \o base
  IN MapValuesByKey(PutAll(EmptyMap, all, [k \in DOMAIN all |-> all[k].Path]))

mergeSystemConfigs(base, override) ==
  LET all == base \o override
  IN MapValuesByKey(PutAll(EmptyMap, all, [k \in DOMAIN all |-> all[k].Path]))

RECURSIVE mergeUserPackageMap(_, _)
mergeUserPackageMap(m, override) ==
  IF override = <<>> THEN m
  ELSE LET up == override[1]
           stored ==
             IF up.User \in DOMAIN m
             THEN [up EXCEPT
                     !.Pipx = SortedStrings(Range(m[up.User].Pipx) \cup Range(up.Pipx)),
                     !.Npm = SortedStrings(Range(m[up.User].Npm) \cup Range(up.Npm))]
             ELSE up
       IN mergeUserPackageMap([k \in DOMAIN m \cup {up.User} |->
                                 IF k = up.User THEN stored ELSE m[k]], Tail(override))

mergeUserPackages(base, override) ==
  LET userPkgMap == PutAll(EmptyMap, base, [k \in DOMAIN base |-> base[k].User])
  IN MapValuesByKey(mergeUserPackageMap(userPkgMap, override))

mergeIgnoredConfigs(base, override) == AppendUnseen(<<>>, {}, base \o override)

\* every state mergeConfigs can return; Includes are not merged
mergeConfigs(base, override) ==
  {[Packages |-> mergePackages(base.Packages, override.Packages),
    Services |-> mergeServices(base.Services, override.Services),
    Users |-> users,
    Configs |-> mergeSystemConfigs(base.Configs, override.Configs),
    IgnoredConfigs |-> mergeIgnoredConfigs(base.IgnoredConfigs, override.IgnoredConfigs),
    UserPackages |-> mergeUserPackages(base.UserPackages, override.UserPackages)] :
     users \in mergeUsers(base.Users, override.Users)}

VARIABLES
  sys,               \* the host: packages, services, accounts, files
  sys0,              \* the host as it was when the run started
  verb,              \* the command being run: "apply", "dry-run", "diff", "dump", or "load"
                     \* for a call of LoadConfig by itself
  pc,                \* the position of the run
  desired,           \* the desired state (the loaded document)
  current,           \* the inferred current state
  prune,             \* the --prune-unmanaged flag
  plan,              \* the plan; Apply updates an action's captured originals in place
  idx,               \* executePlan's loop position / rollbackPlan's loop position
  completedActions,  \* executePlan's completedActions, as positions of the plan
  applyLog,          \* positions of the plan on which Apply was invoked, in call order
  rollbackLog,       \* positions of the plan on which Rollback was invoked, in call order
  rollbackErrs,      \* positions of the plan whose Rollback returned an error
  applyErrs,         \* positions of the plan whose Apply returned an error
  cmdLog,            \* every command handed to the executor, in order
  err,               \* executePlan's err: the error of the Apply that failed ("" for nil)
  result,            \* what the run returned: "none", "ok" or the error
  fs,                \* LoadConfig: the documents on disk, by absolute path
  stack,             \* LoadConfig: the calls of processIncludesRecursive in progress
  visited,           \* LoadConfig: processIncludes' visited map, as the set of its keys
  loaded,            \* LoadConfig: what the earlier calls on the same documents returned
  dumpRaw,           \* summit dump: the --raw flag
  dumpAllServices,   \* summit dump: the --all-services flag
  dumpShowIgnored,   \* summit dump: the --show-ignored flag
  ignored            \* summit dump: the ignored files it prints

vars == <<sys, sys0, verb, pc, desired, current, prune, plan, idx, completedActions,
          applyLog, rollbackLog, rollbackErrs, applyErrs, cmdLog, err, result,
          fs, stack, visited, loaded, dumpRaw, dumpAllServices, dumpShowIgnored, ignored>>

loadVars == <<fs, stack, visited, loaded>>

dumpVars == <<dumpRaw, dumpAllServices, dumpShowIgnored, ignored>>

\* no document tree is being loaded
LoadIdle ==
  /\ fs = <<>>
  /\ stack = <<>>
  /\ visited = {}
  /\ loaded = <<>>

\* the command is not summit dump
DumpIdle ==
  /\ dumpRaw = FALSE
  /\ dumpAllServices = FALSE
  /\ dumpShowIgnored = FALSE
  /\ ignored = <<>>

EmptyHost ==
  [pkgs |-> {}, initd |-> {}, enabled |-> {}, running |-> {}, users |-> {},
   primary |-> {}, groups |-> {"root"}, members |-> {}, upkgs |-> {},
   files |-> [p \in {"/etc/motd"} |-> NoFile],
   pkgfiles |-> [p \in {"/etc/motd"} |-> ""]]

\* the executor's failure patterns for one call of Apply or Rollback
FailSets == SUBSET {1, 2}

NoEnv(F) == [F |-> F, apkOut |-> "", cached |-> FALSE, pkgMode |-> 0]

(***************************************************************************)
(* One action applied to a host and then rolled back (pkg/actions).        *)
(***************************************************************************)
ActionPath == "/etc/motd"

ActionNames == {"", "x"}

ActionModes == {"", "0600", "invalid"}

ActionOwners == {"", "alice", "nobody"}

ActionUniverse ==
  {PackageInstallAction(n) : n \in ActionNames}
  \cup {PackageRemoveAction(n) : n \in ActionNames}
  \cup {ServiceEnableAction(n, rl) : n \in ActionNames, rl \in {"", " ", "default"}}
  \cup {ServiceDisableAction(n, rl) : n \in ActionNames, rl \in {"", "default"}}
  \cup {UserCreateAction(n) : n \in ActionNames}
  \cup {UserRemoveAction(n) : n \in ActionNames}
  \cup {GroupCreateAction(n) : n \in ActionNames}
  \cup {AddUserToGroupAction(u, g) : u \in ActionNames, g \in ActionNames}
  \cup {RemoveUserFromGroupAction(u, g) : u \in ActionNames, g \in ActionNames}
  \cup {UserPackageAction(u, m, p, st) : u \in ActionNames, m \in {"", "pipx"},
                                         p \in ActionNames, st \in {"present", "absent", "latest"}}
  \cup {FileCreateAction(ActionPath, "new", m, o, g) :
          m \in ActionModes, o \in ActionOwners, g \in {"", "wheel"}}
  \cup {FileUpdateAction(ActionPath, "new")}
  \cup {FileDeleteAction(ActionPath)}
  \cup {FileRevertAction(ActionPath, "musl")}
  \cup {FileChmodAction(ActionPath, m) : m \in ActionModes}
  \cup {FileChownAction(ActionPath, o, g) : o \in ActionOwners, g \in {"", "wheel"}}

\* the hosts an action is tried on: the target file absent or present with
\* some permissions and owner
ActionHosts ==
  {[EmptyHost EXCEPT !.users = {"alice"}, !.groups = {"root", "wheel", "alice"},
                     !.pkgs = pk, !.enabled = en, !.files = [p \in {ActionPath} |-> f]] :
     pk \in {{}, {"x"}}, en \in {{}, {<<"x", "default">>}},
     f \in {NoFile} \cup {File("old", m, o, "root") : m \in {420, 384}, o \in {"root", "alice"}}}

\* the environment of one Apply call
ApplyEnvs(a) ==
  IF a.kind = "FileRevert"
  THEN {[F |-> F, apkOut |-> out, cached |-> c, pkgMode |-> m] :
          F \in FailSets, out \in {"musl-1.2.4-r4 description:", "musl"},
          c \in BOOLEAN, m \in {420, 493}}
  ELSE {NoEnv(F) : F \in FailSets}

InitAction ==
  /\ sys \in ActionHosts
  /\ sys0 = sys
  /\ verb = "action"
  /\ pc = "action"
  /\ desired = EmptyState
  /\ current = EmptyState
  /\ prune = FALSE
  /\ plan \in {<<a>> : a \in ActionUniverse}
  /\ idx = 1
  /\ completedActions = <<>>
  /\ applyLog = <<>>
  /\ rollbackLog = <<>>
  /\ rollbackErrs = {}
  /\ applyErrs = {}
  /\ cmdLog = <<>>
  /\ err = ""
  /\ result = "none"
  /\ LoadIdle
  /\ DumpIdle

\* action.Apply(runner, logger)
ActionApply ==
  /\ pc = "action"
  /\ \E env \in ApplyEnvs(plan[1]) :
       LET r == Apply(plan[1], sys, env)
       IN /\ sys' = r.sys
          /\ plan' = <<r.act>>
          /\ cmdLog' = cmdLog \o r.cmds
          /\ result' = IF r.err THEN "error" ELSE "ok"
  /\ pc' = "applied"
  /\ applyLog' = <<1>>
  /\ UNCHANGED <<sys0, verb, desired, current, prune, idx, completedActions,
                 rollbackLog, rollbackErrs, applyErrs, err>>
  /\ UNCHANGED <<loadVars, dumpVars>>

\* action.Rollback(runner, logger), on an action whose Apply succeeded
ActionRollback ==
  /\ pc = "applied"
  /\ result = "ok"
  /\ \E F \in FailSets :
       LET r == Rollback(plan[1], sys, F)
       IN /\ sys' = r.sys
          /\ cmdLog' = cmdLog \o r.cmds
          /\ rollbackErrs' = IF r.err THEN {1} ELSE {}
  /\ pc' = "rolledback"
  /\ rollbackLog' = <<1>>
  /\ UNCHANGED <<sys0, verb, desired, current, prune, plan, idx, completedActions,
                 applyLog, applyErrs, err, result>>
  /\ UNCHANGED <<loadVars, dumpVars>>

NextAction == ActionApply \/ ActionRollback

SpecAction == InitAction /\ [][NextAction]_vars

(***************************************************************************)
(* Claims about single actions (checked under SpecAction).                 *)
(***************************************************************************)
\* a declared field of the action fails the prerequisite check its Apply makes
FieldPrerequisiteFails(a) ==
  CASE a.kind \in {"PackageInstall", "PackageRemove"} -> IsBlank(a.PackageName)
    [] a.kind \in {"ServiceEnable", "ServiceDisable"} ->
         IsBlank(a.ServiceName) \/ IsBlank(a.Runlevel)
    [] a.kind \in {"UserCreate", "UserRemove"} -> IsBlank(a.UserName)
    [] a.kind = "GroupCreate" -> IsBlank(a.GroupName)
    [] a.kind \in {"AddUserToGroup", "RemoveUserFromGroup"} ->
         IsBlank(a.UserName) \/ IsBlank(a.GroupName)
    [] a.kind = "UserPackage" ->
         IsBlank(a.User) \/ IsBlank(a.Manager) \/ IsBlank(a.Package)
         \/ a.State \notin {"present", "absent"}
    [] a.kind = "FileCreate" -> a.Mode # "" /\ ~ParseUint(a.Mode).ok
    [] a.kind = "FileChmod" -> ~ParseUint(a.Mode).ok
    [] OTHER -> FALSE

\* C7: an Apply that returns an error because a declared field fails its
\* prerequisite check has issued no command and has left the host, files
\* included, exactly as it was before the call.
C7_PrerequisiteErrorMutatesNothing ==
  (pc = "applied" /\ result = "error" /\ FieldPrerequisiteFails(plan[1]))
    => (sys = sys0 /\ cmdLog = <<>>)

\* C8: after a file action's Apply succeeded and its Rollback ran without
\* error, the target path's content, mode, owner and group (or its absence)
\* are what they were immediately before Apply.
C8_FileRoundTrip ==
  (pc = "rolledback" /\ plan[1].kind \in FileKinds /\ rollbackErrs = {})
    => sys.files[plan[1].Path] = sys0.files[plan[1].Path]

(***************************************************************************)
(* The commands: summit apply, summit apply --dry-run, summit diff.        *)
(***************************************************************************)
\* LoadConfig of a document without includes; io.readErr: the file cannot
\* be read or parsed.  The result is every order Sort can leave.
LoadConfig_NoValidate(doc, io) ==
  IF io.readErr THEN [err |-> TRUE, states |-> {}]
  ELSE [err |-> FALSE, states |-> Sort(doc)]
LoadConfig(doc, io) ==
  IF io.readErr THEN [err |-> TRUE, states |-> {}]
  ELSE IF Validate(doc) # {} THEN [err |-> TRUE, states |-> {}]
  ELSE [err |-> FALSE, states |-> Sort(doc)]

\* /etc/group as `sh -c 'cat /etc/group'` prints it
GroupFile(s) == [k \in 1..Cardinality(s.groups) |-> SetToSeq(s.groups)[k] \o ":x:100:"]

\* the executor's answers to `<manager> list --json`
UserPackageReplies(s, listReply) ==
  [um \in (s.users \cup {"root"}) \X {"pipx", "npm"} |->
     [err |-> listReply = "error", parses |-> listReply # "garbage",
      pkgs |-> {x[3] : x \in {y \in s.upkgs : y[1] = um[1] /\ y[2] = um[2]}}]]

PlanIO(s, groupErr, listReply) ==
  [groupErr |-> groupErr, groupLines |-> GroupFile(s), lists |-> UserPackageReplies(s, listReply)]

\* apply's dryRun flag; diff always previews
isPreview_DiffOnly(v) == v = "diff"
isPreview(v) == v \in {"dry-run", "diff"}

\* executePlan: an Apply error ends the loop
applyAborts_Never(failed) == FALSE
applyAborts(failed) == failed

\* rollbackPlan: the k-th position visited in a list of n completed actions
rollbackPlanIndex_Forward(n, k) == k
rollbackPlanIndex(n, k) == n + 1 - k

\* rollbackPlan: the error of Rollback is dropped and the loop goes on;
\* left: the number of completed actions not yet visited
rollbackPlanLeft_StopOnError(left, failed) == IF failed THEN 0 ELSE left - 1
rollbackPlanLeft(left, failed) == left - 1

ApplyError(i) == "apply:" \o ToString(i)

LoadConfigStep ==
  /\ pc = "load"
  /\ \E readErr \in BOOLEAN :
       LET r == LoadConfig(desired, [readErr |-> readErr])
       IN IF r.err
          THEN /\ pc' = "done"
               /\ result' = "config"
               /\ UNCHANGED desired
          ELSE /\ pc' = "infer"
               /\ desired' \in r.states
               /\ UNCHANGED result
  /\ UNCHANGED <<sys, sys0, verb, current, prune, plan, idx, completedActions, applyLog,
                 rollbackLog, rollbackErrs, applyErrs, cmdLog, err>>
  /\ UNCHANGED <<loadVars, dumpVars>>

InferStep ==
  /\ pc = "infer"
  /\ \E inferErr \in {"", "world", "groups", "audit"}, whoOwnsErr \in BOOLEAN :
       LET io == [inferErr |-> inferErr, whoOwnsErr |-> whoOwnsErr]
           r == InferSystemState(sys, io, FALSE)
       IN /\ cmdLog' = cmdLog \o InferCommands(sys, io)
          /\ IF r.err
             THEN /\ pc' = "done"
                  /\ result' = "infer"
                  /\ UNCHANGED current
             ELSE /\ pc' = "plan"
                  /\ current' = r.state
                  /\ UNCHANGED result
  /\ UNCHANGED <<sys, sys0, verb, desired, prune, plan, idx, completedActions, applyLog,
                 rollbackLog, rollbackErrs, applyErrs, err>>
  /\ UNCHANGED <<loadVars, dumpVars>>

CalculatePlanStep ==
  /\ pc = "plan"
  /\ \E groupErr \in BOOLEAN, listReply \in {"ok", "error", "garbage"} :
       LET io == PlanIO(sys, groupErr, listReply)
           r == CalculatePlan(desired, current, io, prune)
       IN /\ cmdLog' = cmdLog \o CalculatePlanCommands(desired, current, io)
          /\ IF r.err # ""
             THEN /\ pc' = "done"
                  /\ result' = r.err
                  /\ UNCHANGED plan
             ELSE /\ pc' = IF isPreview(verb) THEN "preview" ELSE "apply"
                  /\ plan' \in r.plans
                  /\ UNCHANGED result
  /\ UNCHANGED <<sys, sys0, verb, desired, current, prune, idx, completedActions, applyLog,
                 rollbackLog, rollbackErrs, applyErrs, err>>
  /\ UNCHANGED <<loadVars, dumpVars>>

\* the plan is printed: Description and ExecutionDetails of each action
Preview ==
  /\ pc = "preview"
  /\ pc' = "done"
  /\ result' = "ok"
  /\ UNCHANGED <<sys, sys0, verb, desired, current, prune, plan, idx, completedActions,
                 applyLog, rollbackLog, rollbackErrs, applyErrs, cmdLog, err>>
  /\ UNCHANGED <<loadVars, dumpVars>>

\* one turn of executePlan's loop
ExecuteApply ==
  /\ pc = "apply"
  /\ idx <= Len(plan)
  /\ \E env \in ApplyEnvs(plan[idx]) :
       LET r == Apply(plan[idx], sys, env)
       IN /\ sys' = r.sys
          /\ plan' = [plan EXCEPT ![idx] = r.act]
          /\ cmdLog' = cmdLog \o r.cmds
          /\ applyLog' = Append(applyLog, idx)
          /\ applyErrs' = IF r.err THEN applyErrs \cup {idx} ELSE applyErrs
          /\ IF applyAborts(r.err)
             THEN /\ pc' = "rollback"
                  /\ err' = ApplyError(idx)
                  /\ idx' = Len(completedActions)
                  /\ UNCHANGED completedActions
             ELSE /\ completedActions' = Append(completedActions, idx)
                  /\ idx' = idx + 1
                  /\ UNCHANGED <<pc, err>>
  /\ UNCHANGED <<sys0, verb, desired, current, prune, rollbackLog, rollbackErrs, result>>
  /\ UNCHANGED <<loadVars, dumpVars>>

\* executePlan's loop is over: "Apply complete."
ExecuteDone ==
  /\ pc = "apply"
  /\ idx > Len(plan)
  /\ pc' = "done"
  /\ result' = "ok"
  /\ UNCHANGED <<sys, sys0, verb, desired, current, prune, plan, idx, completedActions,
                 applyLog, rollbackLog, rollbackErrs, applyErrs, cmdLog, err>>
  /\ UNCHANGED <<loadVars, dumpVars>>

\* one turn of rollbackPlan's loop; idx counts the completed actions left
RollbackStep ==
  /\ pc = "rollback"
  /\ idx > 0
  /\ LET n == Len(completedActions)
         at == completedActions[rollbackPlanIndex(n, n + 1 - idx)]
     IN \E F \in FailSets :
          LET r == Rollback(plan[at], sys, F)
          IN /\ sys' = r.sys
             /\ cmdLog' = cmdLog \o r.cmds
             /\ rollbackLog' = Append(rollbackLog, at)
             /\ rollbackErrs' = IF r.err THEN rollbackErrs \cup {at} ELSE rollbackErrs
             /\ idx' = rollbackPlanLeft(idx, r.err)
  /\ UNCHANGED <<sys0, verb, pc, desired, current, prune, plan, completedActions, applyLog,
                 applyErrs, err, result>>
  /\ UNCHANGED <<loadVars, dumpVars>>

\* rollbackPlan returns and executePlan returns err
RollbackDone ==
  /\ pc = "rollback"
  /\ idx = 0
  /\ pc' = "done"
  /\ result' = err
  /\ UNCHANGED <<sys, sys0, verb, desired, current, prune, plan, idx, completedActions,
                 applyLog, rollbackLog, rollbackErrs, applyErrs, cmdLog, err>>
  /\ UNCHANGED <<loadVars, dumpVars>>

\* the desired-state documents offered to a run, as loadConfigFile parses them
DocCatalogue ==
  << [EmptyState EXCEPT !.Packages = <<PackageState("vim"), PackageState("htop")>>,
                        !.Configs = <<DesiredConfig("/etc/motd", "hello", "0644", "", "")>>],
     [EmptyState EXCEPT !.Services = <<ServiceState("sshd", TRUE, "default")>>,
                        !.Users = <<UserState("alice", <<"wheel">>, "")>>],
     [EmptyState EXCEPT !.Configs = <<DesiredConfig("/etc/passwd", "root:x:0:0", "", "", "")>>],
     [EmptyState EXCEPT !.Services = <<ServiceState("nginx", TRUE, "default")>>],
     [EmptyState EXCEPT !.Packages = <<PackageState("pipx")>>,
                        !.Users = <<UserState("alice", <<>>, "")>>,
                        !.UserPackages = <<UserPackageState("alice", <<"ruff">>, <<>>)>>],
     EmptyState,
     [EmptyState EXCEPT !.Configs = <<DesiredConfig("/etc/hosts", "127.0.0.1 box", "", "", "")>>],
     [EmptyState EXCEPT !.Packages = <<PackageState("git")>>] >>

RunDocs == {DocCatalogue[k] : k \in {j \in DOMAIN DocCatalogue : j <= MaxDocs}}

RunPaths == {"/etc/motd", "/etc/hosts", "/etc/passwd"}

\* a fresh host, and a host in use
RunHosts ==
  LET base == [EmptyHost EXCEPT
                 !.initd = {"sshd"},
                 !.files = [p \in RunPaths |->
                              IF p = "/etc/motd" THEN NoFile
                              ELSE File(PackagedContent, 420, "root", "root")],
                 !.pkgfiles = [p \in RunPaths |->
                                 IF p = "/etc/motd" THEN "" ELSE "alpine-baselayout"]]
  IN {base,
      [base EXCEPT !.pkgs = {"vim"},
                   !.enabled = {<<"sshd", "default">>},
                   !.running = {"sshd"},
                   !.users = {"alice"},
                   !.primary = {<<"alice", "alice">>},
                   !.groups = {"root", "alice", "dev"},
                   !.members = {<<"alice", "alice">>, <<"alice", "dev">>},
                   !.files = [p \in RunPaths |->
                                IF p = "/etc/motd" THEN File("old", 420, "root", "root")
                                ELSE IF p = "/etc/hosts" THEN File("custom", 384, "alice", "root")
                                ELSE File(PackagedContent, 420, "root", "root")]]}

InitRun ==
  /\ sys \in RunHosts
  /\ sys0 = sys
  /\ verb \in {"apply", "dry-run", "diff"}
  /\ pc = "load"
  /\ desired \in RunDocs
  /\ current = EmptyState
  /\ prune \in BOOLEAN
  /\ plan = <<>>
  /\ idx = 1
  /\ completedActions = <<>>
  /\ applyLog = <<>>
  /\ rollbackLog = <<>>
  /\ rollbackErrs = {}
  /\ applyErrs = {}
  /\ cmdLog = <<>>
  /\ err = ""
  /\ result = "none"
  /\ LoadIdle
  /\ DumpIdle

NextRun ==
  \/ LoadConfigStep
  \/ InferStep
  \/ CalculatePlanStep
  \/ Preview
  \/ ExecuteApply
  \/ ExecuteDone
  \/ RollbackStep
  \/ RollbackDone

SpecRun == InitRun /\ [][NextRun]_vars

(***************************************************************************)
(* Claims about the executor and the commands (checked under SpecRun).     *)
(***************************************************************************)
\* the position of the plan whose Apply failed first
FirstFailure == CHOOSE i \in applyErrs : \A j \in applyErrs : i <= j

\* the commands of state inference and plan computation
InferenceAndPlanVerbs ==
  {"groups", "apk audit", "apk info --who-owns", "sh -c 'cat /etc/group'", "list --json"}

\* C1: when the first k Apply calls succeed and the next one fails, Rollback
\* is invoked exactly on the positions k, k-1, ..., 1 in that order, and on
\* nothing when no Apply failed
C1_RollbacksInReverseOrder ==
  /\ applyErrs = {} => rollbackLog = <<>>
  /\ applyErrs # {} =>
       LET k == FirstFailure - 1
       IN /\ Len(rollbackLog) <= k
          /\ \A j \in DOMAIN rollbackLog : rollbackLog[j] = k + 1 - j
          /\ pc = "done" => Len(rollbackLog) = k

C1_Witness ==
  pc = "done" /\ applyErrs # {} /\ Len(rollbackLog) >= 2 /\ FirstFailure < Len(plan)

\* C2: after a failed executePlan whose Rollback calls all succeeded, the
\* host is as it was before the first Apply
C2_FailedRunRestoresHost ==
  (pc = "done" /\ applyErrs # {} /\ rollbackErrs = {}) => sys = sys0

\* C3: a failing Rollback does not stop the sweep, and the error returned
\* is the error of the Apply that failed
C3_SweepContinuesAndApplyErrorReturned ==
  (pc = "done" /\ applyErrs # {}) =>
    /\ Range(rollbackLog) = Range(completedActions)
    /\ result = ApplyError(FirstFailure)

C3_Witness ==
  /\ pc = "done"
  /\ Len(rollbackLog) >= 2
  /\ rollbackLog[1] \in rollbackErrs
  /\ result = ApplyError(FirstFailure)

\* C4: Apply is invoked in plan order, each action at most once, and never
\* after an Apply that returned an error
C4_ApplyInPlanOrderUntilError ==
  /\ Len(applyLog) <= Len(plan)
  /\ \A j \in DOMAIN applyLog : applyLog[j] = j
  /\ \A i \in applyErrs : i = Len(applyLog)

C4_Witness ==
  pc = "done" /\ applyErrs # {} /\ Len(applyLog) >= 2 /\ Len(applyLog) < Len(plan)

\* C5: a preview (apply --dry-run, diff) invokes no Apply and no Rollback,
\* changes nothing on the host, and hands the executor only the commands
\* of state inference and plan computation
C5_PreviewMutatesNothing ==
  verb \in {"dry-run", "diff"} =>
    /\ applyLog = <<>>
    /\ rollbackLog = <<>>
    /\ sys = sys0
    /\ \A k \in DOMAIN cmdLog : cmdLog[k][2] \in InferenceAndPlanVerbs

C5_Witness ==
  verb = "dry-run" /\ pc = "done" /\ result = "ok" /\ Len(plan) >= 2 /\ cmdLog # <<>>

\* C6: when loading or validation, state inference or dependency validation
\* fails, no Apply has been invoked and the host is unchanged
C6_ErrorsPrecedeAnyApply ==
  (\/ result \in {"config", "infer", "dependency", "groups"}
   \/ Validate(desired) # {}
   \/ (pc \notin {"load", "infer", "plan"} /\ ValidateDependencies(desired, current) # <<>>))
    => (applyLog = <<>> /\ sys = sys0)

C6_Witness ==
  verb = "apply" /\ pc = "done" /\ result = "config" /\ Validate(desired) # {}

(***************************************************************************)
(* summit diff over a family of desired users, desired configs and hosts.  *)
(***************************************************************************)
GroupCatalogue == <<"dev", "wheel", "audio">>

GroupNames == {GroupCatalogue[k] : k \in {j \in DOMAIN GroupCatalogue : j <= MaxGroups}}

\* one path of every class the two ignore lists name, and two ordinary paths
DiffPaths ==
  {"/etc/passwd", "/etc/group", "/etc/shadow", "/etc/apk/world",
   "/etc/apk/keys/alpine.rsa.pub", "/etc/runlevels/default/sshd", "/etc/apk/arch",
   "/etc/apk/protected_paths.d/ca-certificates.list", "/etc/motd-", "/etc/motd.bak",
   "/etc/motd", "/etc/hosts"}

\* documents declaring the user alice with some groups, or one config
DiffDocs ==
  {EmptyState}
  \cup {[EmptyState EXCEPT !.Users = <<UserState("alice", SetToSeq(gs), "")>>] :
          gs \in SUBSET ({"alice"} \cup GroupNames)}
  \cup {[EmptyState EXCEPT !.Configs = <<DesiredConfig(p, "new", "", "", "")>>] : p \in DiffPaths}
  \cup {[EmptyState EXCEPT !.Users = <<UserState("alice", <<"dev">>, "")>>,
                           !.Configs = <<DesiredConfig("/etc/motd", "new", "0600", "alice", "")>>]}

\* hosts without alice, or with alice in a primary group and some others;
\* at most one of the paths holds a file that differs from its package
DiffHosts ==
  LET accounts ==
        {[users |-> {}, primary |-> {}, members |-> {}]}
        \cup {[users |-> {"alice"}, primary |-> {<<"alice", pg>>},
               members |-> {<<"alice", g>> : g \in gs \cup {pg}}] :
                pg \in {"alice", "dev"}, gs \in SUBSET ({"alice"} \cup GroupNames)}
      filesets ==
        {[p \in DiffPaths |-> IF p = q THEN File("old", 420, "root", "root") ELSE NoFile] :
           q \in {"", "/etc/motd", "/etc/hosts", "/etc/apk/arch", "/etc/motd.bak", "/etc/passwd"}}
  IN {[EmptyHost EXCEPT !.users = a.users, !.primary = a.primary, !.members = a.members,
                        !.groups = {"root", "alice"} \cup GroupNames,
                        !.files = f,
                        !.pkgfiles = [p \in DiffPaths |->
                                        IF p \in {"/etc/hosts", "/etc/passwd"}
                                        THEN "alpine-baselayout" ELSE ""]] :
        a \in accounts, f \in filesets}

InitDiff ==
  /\ sys \in DiffHosts
  /\ sys0 = sys
  /\ verb = "diff"
  /\ pc = "load"
  /\ desired \in DiffDocs
  /\ current = EmptyState
  /\ prune \in BOOLEAN
  /\ plan = <<>>
  /\ idx = 1
  /\ completedActions = <<>>
  /\ applyLog = <<>>
  /\ rollbackLog = <<>>
  /\ rollbackErrs = {}
  /\ applyErrs = {}
  /\ cmdLog = <<>>
  /\ err = ""
  /\ result = "none"
  /\ LoadIdle
  /\ DumpIdle

NextDiff ==
  \/ LoadConfigStep
  \/ InferStep
  \/ CalculatePlanStep
  \/ Preview

SpecDiff == InitDiff /\ [][NextDiff]_vars

(***************************************************************************)
(* Claims about validation and plans (checked under SpecDiff).             *)
(***************************************************************************)
\* the intrinsic-ignore set as the specification lists it
IntrinsicIgnoreSet(path) ==
  \/ path \in {"/etc/passwd", "/etc/group", "/etc/shadow", "/etc/apk/world"}
  \/ \E prefix \in {"/etc/apk/keys", "/etc/runlevels", "/etc/apk/arch",
                    "/etc/apk/protected_paths.d/ca-certificates.list"} : HasPrefix(path, prefix)
  \/ HasSuffix(path, "-")
  \/ HasSuffix(path, ".bak")

\* C9: a desired state with a config on a path of the intrinsic-ignore set
\* fails validation, and no plan holds an action on such a path
C9_IntrinsicPathsNeverManaged ==
  /\ (\E k \in DOMAIN desired.Configs : IntrinsicIgnoreSet(desired.Configs[k].Path))
       => (pc = "load" \/ result = "config")
  /\ \A k \in DOMAIN plan :
       plan[k].kind \in FileKinds => ~IntrinsicIgnoreSet(plan[k].Path)

\* C10: no plan removes a user from the primary group the current state
\* records for that user
C10_PrimaryGroupNeverRemoved ==
  \A k \in DOMAIN plan :
    plan[k].kind = "RemoveUserFromGroup" =>
      \A i \in DOMAIN current.Users :
        current.Users[i].Name = plan[k].UserName
          => plan[k].GroupName # current.Users[i].PrimaryGroup

\* alice's primary group is missing from the desired groups, and the plan
\* removes her from another group
C10_Witness ==
  /\ pc = "done"
  /\ result = "ok"
  /\ \E i \in DOMAIN current.Users, j \in DOMAIN desired.Users :
       /\ current.Users[i].Name = desired.Users[j].Name
       /\ current.Users[i].PrimaryGroup \in Range(current.Users[i].Groups)
       /\ current.Users[i].PrimaryGroup \notin Range(desired.Users[j].Groups)
  /\ \E k \in DOMAIN plan : plan[k].kind = "RemoveUserFromGroup"

(***************************************************************************)
(* summit diff over cases built for the diff engine: a desired document    *)
(* and a host chosen together.                                             *)
(***************************************************************************)
PlanPaths == {"/etc/motd", "/etc/hosts", "/etc/ssh/sshd_config", "/etc/ssh/id.pub"}

PatternCatalogue == <<"/etc/motd", "/etc/ssh/**", "/etc/ho*", "/etc/**/*.pub", "/etc/ssh/*">>

PlanPatterns ==
  {PatternCatalogue[k] : k \in {j \in DOMAIN PatternCatalogue : j <= MaxPatterns}}

PlanHostBase ==
  [EmptyHost EXCEPT
     !.files = [p \in PlanPaths |->
                  IF p \in {"/etc/hosts", "/etc/ssh/sshd_config"}
                  THEN File(PackagedContent, 420, "root", "root") ELSE NoFile],
     !.pkgfiles = [p \in PlanPaths |->
                     IF p = "/etc/hosts" THEN "alpine-baselayout"
                     ELSE IF p = "/etc/ssh/sshd_config" THEN "openssh" ELSE ""]]

\* hosts on which some of the paths hold a file edited by hand, and a host
\* on which a packaged file was removed
ConfigHosts ==
  {[PlanHostBase EXCEPT
      !.files = [p \in PlanPaths |->
                   IF p \in edited THEN File("old", 420, "root", "root")
                   ELSE PlanHostBase.files[p]]] :
     edited \in {{}, {"/etc/motd"}, {"/etc/ssh/sshd_config"}, {"/etc/motd", "/etc/hosts"},
                 {"/etc/ssh/sshd_config", "/etc/ssh/id.pub"}, PlanPaths}}
  \cup {[PlanHostBase EXCEPT !.files["/etc/ssh/sshd_config"] = NoFile]}

\* documents with at most one config and at most one ignore pattern
ConfigDocs ==
  LET configs ==
        {<<>>}
        \cup {<<DesiredConfig(p, c, m, og[1], og[2])>> :
                p \in {"/etc/motd", "/etc/ssh/sshd_config"}, c \in {"old", "new"},
                m \in {"", "0644", "0600"},
                og \in {<<"", "">>, <<"root", "root">>, <<"alice", "root">>, <<"", "wheel">>}}
      patterns == {<<>>} \cup {<<pat>> : pat \in PlanPatterns}
  IN {[EmptyState EXCEPT !.Configs = c, !.IgnoredConfigs = i] : c \in configs, i \in patterns}

ConfigCases == {[doc |-> d, host |-> h] : d \in ConfigDocs, h \in ConfigHosts}

\* documents declaring up to MaxServices services, a name possibly twice, on
\* hosts with two or three init scripts of which some are enabled
ServiceNames == {"sshd", "nginx", "crond"}

ServiceEntries ==
  {ServiceState(n, e[1], e[2]) :
     n \in ServiceNames, e \in {<<TRUE, "default">>, <<TRUE, "boot">>, <<FALSE, "">>}}

\* and two documents that enable a service without naming a runlevel
ServiceDocs ==
  {[EmptyState EXCEPT !.Services = sv] :
     sv \in UNION {[1..k -> ServiceEntries] : k \in 0..MaxServices}}
  \cup {[EmptyState EXCEPT !.Services = <<ServiceState(n, TRUE, "")>>] : n \in {"sshd", "crond"}}

ServiceHosts ==
  {[EmptyHost EXCEPT !.initd = i, !.enabled = e] :
     i \in {{"sshd"}, {"sshd", "crond"}},
     e \in {{}, {<<"sshd", "default">>}, {<<"sshd", "boot">>, <<"sshd", "default">>}}}
  \cup {[EmptyHost EXCEPT !.initd = {"sshd", "crond"}, !.enabled = e] :
          e \in {{<<"crond", "default">>}, {<<"sshd", "default">>, <<"crond", "default">>}}}

ServiceCases == {[doc |-> d, host |-> h] : d \in ServiceDocs, h \in ServiceHosts}

\* documents declaring alice with some of the group names, or alice and bob
\* (bob with no group, alice's groups, or all of them; one list names a
\* group twice), on hosts whose /etc/group holds
\* some of the names and that have no account or the account alice
UserDocs ==
  {[EmptyState EXCEPT !.Users = <<UserState("alice", SetToSeq(gs), "")>>] :
     gs \in SUBSET GroupNames}
  \cup UNION {{[EmptyState EXCEPT !.Users = <<UserState("alice", SetToSeq(gs), ""),
                                              UserState("bob", SetToSeq(hs), "")>>] :
                  hs \in {{}, gs, GroupNames}} : gs \in SUBSET GroupNames}
  \cup {[EmptyState EXCEPT !.Users = <<UserState("alice", <<"dev", "dev">>, "")>>]}

UserHosts ==
  {[EmptyHost EXCEPT !.groups = {"root"} \cup have] : have \in SUBSET GroupNames}
  \cup UNION {{[EmptyHost EXCEPT !.groups = {"root", "alice"} \cup have,
                                 !.users = {"alice"},
                                 !.primary = {<<"alice", "alice">>},
                                 !.members = {<<"alice", g>> : g \in {"alice"} \cup ms}] :
                  ms \in {{}, have}} : have \in SUBSET GroupNames}

UserCases == {[doc |-> d, host |-> h] : d \in UserDocs, h \in UserHosts}

\* documents declaring alice and bob, some of the packages pipx and npm,
\* per-user packages for alice or for both, and up to two services, on hosts
\* with neither account, alice, or both, with or without the packages and
\* the init script of nginx
DepDocs ==
  LET userPackages ==
        {<<>>, <<UserPackageState("alice", <<"ruff">>, <<"tldr">>),
                 UserPackageState("bob", <<"black">>, <<>>)>>}
        \cup {<<UserPackageState("alice", px, nm)>> :
                px \in {<<>>, <<"ruff">>}, nm \in {<<>>, <<"tldr">>}}
      services ==
        {<<>>, <<ServiceState("nginx", TRUE, "default")>>,
         <<ServiceState("nginx", TRUE, "default"), ServiceState("httpd", FALSE, "")>>}
  IN {[EmptyState EXCEPT !.Packages = [k \in DOMAIN SetToSeq(ps) |-> PackageState(SetToSeq(ps)[k])],
                         !.Users = <<UserState("alice", <<>>, ""), UserState("bob", <<>>, "")>>,
                         !.UserPackages = up,
                         !.Services = sv] :
        ps \in SUBSET {"pipx", "npm"}, up \in userPackages, sv \in services}

DepHosts ==
  LET accounts == {{}, {"alice"}, {"alice", "bob"}}
      software ==
        {[pkgs |-> {}, upkgs |-> {}], [pkgs |-> {"pipx", "npm"}, upkgs |-> {}],
         [pkgs |-> {"pipx", "npm"},
          upkgs |-> {<<"alice", "pipx", "ruff">>, <<"alice", "npm", "tldr">>,
                     <<"bob", "pipx", "black">>}]}
  IN {[EmptyHost EXCEPT !.users = a,
                        !.primary = {<<u, u>> : u \in a},
                        !.members = {<<u, u>> : u \in a},
                        !.groups = {"root"} \cup a,
                        !.pkgs = sw.pkgs,
                        !.upkgs = {x \in sw.upkgs : x[1] \in a},
                        !.initd = i,
                        !.enabled = {<<"nginx", "default">>} \cap (i \X {"default"})] :
        a \in accounts, sw \in software, i \in {{"sshd"}, {"sshd", "nginx"}}}

DepCases == {[doc |-> d, host |-> h] : d \in DepDocs, h \in DepHosts}

\* documents whose one ignore pattern starts with `**` or holds it twice,
\* with or without a declared config, on hosts with hand-edited files
GlobPatterns == {"**/motd", "**", "**/*.pub", "/etc/**/ssh/**", "/**/**", "**/ssh/**"}

GlobDocs ==
  {[EmptyState EXCEPT !.Configs = c, !.IgnoredConfigs = <<pat>>] :
     c \in {<<>>, <<DesiredConfig("/etc/motd", "new", "", "", "")>>}, pat \in GlobPatterns}

GlobHosts ==
  {[PlanHostBase EXCEPT
      !.files = [p \in PlanPaths |->
                   IF p \in edited THEN File("old", 420, "root", "root")
                   ELSE PlanHostBase.files[p]]] :
     edited \in {{"/etc/motd"}, {"/etc/ssh/sshd_config", "/etc/ssh/id.pub"}}}

GlobCases == {[doc |-> d, host |-> h] : d \in GlobDocs, h \in GlobHosts}

\* a document with entries of every kind, on hosts with the account bob,
\* the service sshd enabled, and with or without pipx and a hand-made motd
MixedDocs ==
  {[Packages |-> <<PackageState("pipx"), PackageState("vim")>>,
    Services |-> <<ServiceState("sshd", FALSE, "")>>,
    Users |-> <<UserState("alice", groups, ""), UserState("bob", <<"dev">>, "")>>,
    Configs |-> <<DesiredConfig("/etc/motd", "new", "0644", "", "")>>,
    IgnoredConfigs |-> <<>>,
    UserPackages |-> <<UserPackageState("bob", <<"ruff">>, <<>>)>>] :
     groups \in {<<"dev">>, <<"wheel", "dev">>}}

MixedHosts ==
  {[PlanHostBase EXCEPT
      !.pkgs = pkgs,
      !.initd = {"sshd"},
      !.enabled = {<<"sshd", "default">>},
      !.users = {"bob"},
      !.primary = {<<"bob", "bob">>},
      !.members = {<<"bob", "bob">>},
      !.groups = {"root", "bob"},
      !.files["/etc/motd"] = motd] :
     pkgs \in {{}, {"pipx", "nano"}}, motd \in {NoFile, File("old", 420, "root", "root")}}

MixedCases == {[doc |-> d, host |-> h] : d \in MixedDocs, h \in MixedHosts}

PlanCases ==
  ConfigCases \cup ServiceCases \cup UserCases \cup DepCases \cup GlobCases \cup MixedCases

\* --prune-unmanaged is read by calculateConfigActions only: both settings
\* are tried on the hosts that hold a file
PruneSettings(host) ==
  IF \A p \in DOMAIN host.files : ~host.files[p].exists THEN {FALSE} ELSE BOOLEAN

InitPlan ==
  /\ \E c \in PlanCases : desired = c.doc /\ sys = c.host /\ prune \in PruneSettings(c.host)
  /\ sys0 = sys
  /\ verb = "diff"
  /\ pc = "load"
  /\ current = EmptyState
  /\ plan = <<>>
  /\ idx = 1
  /\ completedActions = <<>>
  /\ applyLog = <<>>
  /\ rollbackLog = <<>>
  /\ rollbackErrs = {}
  /\ applyErrs = {}
  /\ cmdLog = <<>>
  /\ err = ""
  /\ result = "none"
  /\ LoadIdle
  /\ DumpIdle

NextPlan ==
  \/ LoadConfigStep
  \/ InferStep
  \/ CalculatePlanStep
  \/ Preview

SpecPlan == InitPlan /\ [][NextPlan]_vars

(***************************************************************************)
(* Claims about plans (checked under SpecPlan).                            *)
(***************************************************************************)
\* CalculatePlan has returned a plan
PlanReturned == pc = "preview" \/ (pc = "done" /\ result = "ok")

\* some pattern of the desired ignored_configs matches the path
PlanIgnored(path) ==
  \E k \in DOMAIN desired.IgnoredConfigs : MatchesGlob(desired.IgnoredConfigs[k], path)

DesiredPaths == {desired.Configs[k].Path : k \in DOMAIN desired.Configs}

\* C11: the plan holds no file action on a path that a pattern of
\* ignored_configs matches
C11_IgnoredPathsUntouched ==
  \A k \in DOMAIN plan : plan[k].kind \in FileKinds => ~PlanIgnored(plan[k].Path)

\* an ignored path is declared, another is on the host, and a plan was made
C11_Witness ==
  /\ PlanReturned
  /\ prune
  /\ \E i \in DOMAIN desired.Configs : PlanIgnored(desired.Configs[i].Path)
  /\ \E j \in DOMAIN current.Configs :
       PlanIgnored(current.Configs[j].Path) /\ current.Configs[j].Path \notin DesiredPaths
  /\ plan # <<>>

\* C12: FileDelete(p) is planned only on request (prune_unmanaged) and
\* only for a non-ignored current config of origin user-created that the
\* desired state does not declare; a non-ignored current-only config of
\* origin package-modified always gets FileRevert against its package
C12_DeleteOnlyOnRequestRevertAlways ==
  /\ \A k \in DOMAIN plan :
       plan[k].kind = "FileDelete" =>
         /\ prune
         /\ ~PlanIgnored(plan[k].Path)
         /\ plan[k].Path \notin DesiredPaths
         /\ \E j \in DOMAIN current.Configs :
              /\ current.Configs[j].Path = plan[k].Path
              /\ current.Configs[j].Origin = "user-created"
  /\ PlanReturned =>
       \A j \in DOMAIN current.Configs :
         (/\ current.Configs[j].Origin = "package-modified"
          /\ ~PlanIgnored(current.Configs[j].Path)
          /\ current.Configs[j].Path \notin DesiredPaths)
           => \E k \in DOMAIN plan :
                plan[k] = FileRevertAction(current.Configs[j].Path,
                                           current.Configs[j].OriginPackage)

\* without the request, a hand-made file and a hand-edited package file are
\* both on the host and undeclared: only the latter gets an action
C12_Witness ==
  /\ PlanReturned
  /\ ~prune
  /\ \E j \in DOMAIN current.Configs :
       /\ current.Configs[j].Origin = "user-created"
       /\ ~PlanIgnored(current.Configs[j].Path)
       /\ current.Configs[j].Path \notin DesiredPaths
  /\ \E k \in DOMAIN plan : plan[k].kind = "FileRevert"

\* C20: for a non-ignored path on both sides the plan holds FileUpdate
\* exactly when the contents differ, FileChmod exactly when a mode is
\* declared and differs, FileChown exactly when an owner or a group is
\* declared and differs, and never FileCreate, FileDelete or FileRevert
C20_BothSidesConfigActions ==
  PlanReturned =>
    \A i \in DOMAIN desired.Configs, j \in DOMAIN current.Configs :
      LET d == desired.Configs[i]
          c == current.Configs[j]
          planned(kind) == \E k \in DOMAIN plan : plan[k].kind = kind /\ plan[k].Path = d.Path
      IN (d.Path = c.Path /\ ~PlanIgnored(d.Path)) =>
           /\ planned("FileUpdate") <=> d.Content # c.Content
           /\ planned("FileChmod") <=> (d.Mode # "" /\ d.Mode # c.Mode)
           /\ planned("FileChown") <=> \/ (d.Owner # "" /\ d.Owner # c.Owner)
                                       \/ (d.Group # "" /\ d.Group # c.Group)
           /\ ~planned("FileCreate")
           /\ ~planned("FileDelete")
           /\ ~planned("FileRevert")

\* a declared file is on the host with the declared content and another
\* mode: the plan holds its FileChmod and no FileUpdate
C20_Witness ==
  /\ PlanReturned
  /\ \E i \in DOMAIN desired.Configs, j \in DOMAIN current.Configs :
       /\ desired.Configs[i].Path = current.Configs[j].Path
       /\ ~PlanIgnored(desired.Configs[i].Path)
       /\ desired.Configs[i].Content = current.Configs[j].Content
       /\ desired.Configs[i].Owner = ""
       /\ desired.Configs[i].Group = "wheel"
       /\ plan = <<FileChmodAction(desired.Configs[i].Path, "0600"),
                   FileChownAction(desired.Configs[i].Path, "", "wheel")>>

\* CalculatePlan was called and has returned, with a plan or with an error
PlanCalled == PlanReturned \/ (pc = "done" /\ result \in {"dependency", "groups"})

\* the enabled flags of the entries of a service list that carry the name
EnabledFlags(services, n) ==
  {services[i].Enabled : i \in {j \in DOMAIN services : services[j].Name = n}}

\* how many actions of the kind the plan holds for the service
ServiceActionCount(kind, n) ==
  Cardinality({k \in DOMAIN plan : plan[k].kind = kind /\ plan[k].ServiceName = n})

\* C17: for a service on both sides the plan holds exactly one
\* ServiceEnable when desired is enabled and current is not, exactly one
\* ServiceDisable when desired is disabled and current is enabled, and no
\* service action when the flags are equal; a service only on the current
\* side and enabled gets exactly one ServiceDisable
C17_OneServiceActionPerTransition ==
  PlanReturned =>
    \A n \in ServiceNames :
      LET d == EnabledFlags(desired.Services, n)
          c == EnabledFlags(current.Services, n)
          en == ServiceActionCount("ServiceEnable", n)
          dis == ServiceActionCount("ServiceDisable", n)
      IN /\ (d = {TRUE} /\ c = {FALSE}) => (en = 1 /\ dis = 0)
         /\ (d = {FALSE} /\ c = {TRUE}) => (en = 0 /\ dis = 1)
         /\ (Cardinality(d) = 1 /\ d = c) => (en = 0 /\ dis = 0)
         /\ (d = {} /\ c = {TRUE}) => (en = 0 /\ dis = 1)

\* one service is switched on and another one, which the
\* document does not name, is switched off
C17_Witness ==
  /\ PlanReturned
  /\ \E n, m \in ServiceNames :
       /\ EnabledFlags(desired.Services, n) = {TRUE}
       /\ EnabledFlags(current.Services, n) = {FALSE}
       /\ ServiceActionCount("ServiceEnable", n) = 1
       /\ EnabledFlags(desired.Services, m) = {}
       /\ EnabledFlags(current.Services, m) = {TRUE}
       /\ ServiceActionCount("ServiceDisable", m) = 1

\* the desired entries that are enabled and name no service of the current state
DesiredOnlyEnabled ==
  {i \in DOMAIN desired.Services :
     /\ desired.Services[i].Enabled
     /\ \A j \in DOMAIN current.Services :
          current.Services[j].Name # desired.Services[i].Name}

\* C18: for a desired enabled service that the current state lacks,
\* CalculatePlan returns a plan holding its ServiceEnable
C18_DesiredOnlyServiceEnabled ==
  PlanCalled =>
    \A i \in DesiredOnlyEnabled :
      /\ PlanReturned
      /\ ServiceActionCount("ServiceEnable", desired.Services[i].Name) >= 1

\* the groups that the desired users name
ReferencedGroups ==
  UNION {Range(desired.Users[i].Groups) : i \in DOMAIN desired.Users}

GroupCreateCount(g) ==
  Cardinality({k \in DOMAIN plan : plan[k].kind = "GroupCreate" /\ plan[k].GroupName = g})

\* C19: the plan holds exactly one GroupCreate(g) for every group g that a
\* desired user names and /etc/group lacks, and no GroupCreate for a group
\* that exists or that no desired user names
C19_OneGroupCreatePerMissingGroup ==
  PlanReturned =>
    /\ \A g \in ReferencedGroups \ sys.groups : GroupCreateCount(g) = 1
    /\ \A k \in DOMAIN plan :
         plan[k].kind = "GroupCreate" =>
           plan[k].GroupName \in ReferencedGroups \ sys.groups

\* two desired users name the same missing group, one of them names a group
\* that exists, and the plan was made
C19_Witness ==
  /\ PlanReturned
  /\ Len(desired.Users) = 2
  /\ \E g \in Range(desired.Users[1].Groups) \cap Range(desired.Users[2].Groups) :
       g \notin sys.groups /\ GroupCreateCount(g) = 1
  /\ \E h \in ReferencedGroups : h \in sys.groups /\ GroupCreateCount(h) = 0

\* the current state was inferred: ValidateDependencies can be applied
CurrentInferred == pc = "plan" \/ PlanCalled

DesiredPackageNames == {desired.Packages[i].Name : i \in DOMAIN desired.Packages}

\* the four dependency rules, each with the entries that violate it
PipxRuleViolated ==
  /\ \E i \in DOMAIN desired.UserPackages : desired.UserPackages[i].Pipx # <<>>
  /\ "pipx" \notin DesiredPackageNames

NpmRuleViolated ==
  /\ \E i \in DOMAIN desired.UserPackages : desired.UserPackages[i].Npm # <<>>
  /\ "npm" \notin DesiredPackageNames

MissingServices ==
  {desired.Services[i].Name : i \in DOMAIN desired.Services}
    \ {current.Services[j].Name : j \in DOMAIN current.Services}

MissingUsers ==
  {desired.UserPackages[i].User : i \in DOMAIN desired.UserPackages}
    \ {current.Users[j].Name : j \in DOMAIN current.Users}

DependencyViolated ==
  PipxRuleViolated \/ NpmRuleViolated \/ MissingServices # {} \/ MissingUsers # {}

SamePackageSet ==
  DesiredPackageNames = {current.Packages[j].Name : j \in DOMAIN current.Packages}

DesiredServicesPresent ==
  \A i \in DOMAIN desired.Services :
    \E j \in DOMAIN current.Services :
      /\ current.Services[j].Name = desired.Services[i].Name
      /\ current.Services[j].Enabled = desired.Services[i].Enabled

NoOtherServiceEnabled ==
  \A j \in DOMAIN current.Services :
    current.Services[j].Enabled =>
      \E i \in DOMAIN desired.Services : desired.Services[i].Name = current.Services[j].Name

UsersConverged ==
  /\ \A i \in DOMAIN desired.Users :
       \E j \in DOMAIN current.Users :
         /\ current.Users[j].Name = desired.Users[i].Name
         /\ Range(current.Users[j].Groups)
              = Range(desired.Users[i].Groups) \cup {current.Users[j].PrimaryGroup}
  /\ \A j \in DOMAIN current.Users :
       \E i \in DOMAIN desired.Users : desired.Users[i].Name = current.Users[j].Name

ConfigsConverged ==
  /\ \A i \in DOMAIN desired.Configs :
       \E j \in DOMAIN current.Configs :
         /\ current.Configs[j].Path = desired.Configs[i].Path
         /\ current.Configs[j].Content = desired.Configs[i].Content
         /\ current.Configs[j].Mode = desired.Configs[i].Mode
         /\ current.Configs[j].Owner = desired.Configs[i].Owner
         /\ current.Configs[j].Group = desired.Configs[i].Group
  /\ \A j \in DOMAIN current.Configs :
       PlanIgnored(current.Configs[j].Path) \/ current.Configs[j].Path \in DesiredPaths

UserPackagesConverged ==
  \A i \in DOMAIN desired.UserPackages :
    LET up == desired.UserPackages[i]
        installed(manager) ==
          {x[3] : x \in {y \in sys.upkgs : y[1] = up.User /\ y[2] = manager}}
    IN installed("pipx") = Range(up.Pipx) /\ installed("npm") = Range(up.Npm)

Converged ==
  /\ SamePackageSet
  /\ DesiredServicesPresent
  /\ UsersConverged
  /\ ConfigsConverged
  /\ UserPackagesConverged

\* C13 as stated: when the current state is converged to the desired state,
\* the plan that CalculatePlan returns is empty
C13_ConvergedPlanEmpty == (PlanReturned /\ Converged) => plan = <<>>

\* C13: when the current state is converged to the desired state and no
\* service outside the desired state is enabled, the plan that
\* CalculatePlan returns is empty
C13_ConvergedNoOtherServicePlanEmpty ==
  (PlanReturned /\ Converged /\ NoOtherServiceEnabled) => plan = <<>>

\* a plan was made for a converged host on which the document declares
\* packages, users, an enabled service and per-user packages
C13_Witness ==
  /\ PlanReturned
  /\ Converged
  /\ NoOtherServiceEnabled
  /\ desired.Packages # <<>>
  /\ desired.Users # <<>>
  /\ \E i \in DOMAIN desired.Services : desired.Services[i].Enabled
  /\ Len(desired.UserPackages) = 2

\* the plans that runs of CalculatePlan on the desired and the current
\* state can return when the executor answers the list commands with reply
PossiblePlans(reply) ==
  CalculatePlan(desired, current, PlanIO(sys, FALSE, reply), prune).plans

\* the two plans hold the same actions the same number of times
SameActions(p, q) ==
  /\ Len(p) = Len(q)
  /\ \A a \in Range(p) \cup Range(q) :
       Cardinality({k \in DOMAIN p : p[k] = a}) = Cardinality({k \in DOMAIN q : q[k] = a})

\* C14: for the same desired state, current state, ignore patterns and
\* executor answers, any two plans that CalculatePlan can return hold the
\* same multiset of actions, whatever the order of the map iterations
C14_PlansEqualUpToOrder ==
  PlanReturned =>
    \A reply \in {"ok", "error", "garbage"} :
      \A p, q \in PossiblePlans(reply) : SameActions(p, q)

\* the map iterations allow a plan other than the one returned
C14_Witness ==
  /\ PlanReturned
  /\ Len(plan) >= 3
  /\ \E p \in PossiblePlans("ok") : p # plan /\ SameActions(p, plan)

\* the pattern holds `**` more than once
HasSeveralDoubleStars(pattern) ==
  /\ Contains(pattern, "**")
  /\ Contains(SubSeq(pattern, IndexStr(pattern, "**") + 2, Len(pattern)), "**")

\* the paths calculateConfigActions has tried the ignore patterns on
TestedPaths ==
  IF PlanReturned
  THEN DesiredPaths \cup {current.Configs[j].Path : j \in DOMAIN current.Configs}
  ELSE {}

\* C23: MatchesGlob is false on every path for a pattern that holds more
\* than one `**` or begins with `**`
C23_UnsupportedPatternsNeverMatch ==
  \A k \in DOMAIN desired.IgnoredConfigs :
    LET pattern == desired.IgnoredConfigs[k]
    IN (HasSeveralDoubleStars(pattern) \/ HasPrefix(pattern, "**")) =>
         \A path \in TestedPaths : ~MatchesGlob(pattern, path)

\* the part of C23 that the code keeps: more than one `**` never matches
SeveralDoubleStarsNeverMatch ==
  \A k \in DOMAIN desired.IgnoredConfigs :
    HasSeveralDoubleStars(desired.IgnoredConfigs[k]) =>
      \A path \in PlanPaths \cup TestedPaths : ~MatchesGlob(desired.IgnoredConfigs[k], path)

\* the place of an action's kind in CalculatePlan's order of categories
Category(action) ==
  IF action.kind \in {"PackageInstall", "PackageRemove"} THEN 1
  ELSE IF action.kind \in {"ServiceEnable", "ServiceDisable"} THEN 2
  ELSE IF action.kind \in {"GroupCreate", "UserCreate", "UserRemove", "AddUserToGroup",
                           "RemoveUserFromGroup"} THEN 3
  ELSE IF action.kind \in FileKinds THEN 4
  ELSE 5

\* C25: a plan holds its actions in the order of the categories (packages,
\* services, groups and users, config files, per-user packages); every
\* GroupCreate(g) comes before every AddUserToGroup(u, g), and a user the
\* plan creates is created before the plan adds the user to a group
C25_CategoryAndUserOrder ==
  /\ \A i, j \in DOMAIN plan : i < j => Category(plan[i]) <= Category(plan[j])
  /\ \A i, j \in DOMAIN plan :
       (/\ plan[i].kind = "AddUserToGroup"
        /\ plan[j].kind = "GroupCreate"
        /\ plan[j].GroupName = plan[i].GroupName) => j < i
  /\ \A i \in DOMAIN plan :
       (/\ plan[i].kind = "AddUserToGroup"
        /\ \E j \in DOMAIN plan :
             plan[j].kind = "UserCreate" /\ plan[j].UserName = plan[i].UserName)
         => \E j \in 1..(i - 1) :
              plan[j].kind = "UserCreate" /\ plan[j].UserName = plan[i].UserName

\* a plan with actions of all five categories that creates two groups and
\* a user and adds the new user and an old one to the groups
C25_Witness ==
  /\ PlanReturned
  /\ {Category(plan[k]) : k \in DOMAIN plan} = 1..5
  /\ Cardinality({k \in DOMAIN plan : plan[k].kind = "GroupCreate"}) = 2
  /\ \E i, j, k \in DOMAIN plan :
       /\ plan[i] = UserCreateAction("alice")
       /\ plan[j] = AddUserToGroupAction("alice", "wheel")
       /\ plan[k] = AddUserToGroupAction("bob", "dev")

\* C27: every ServiceEnable and ServiceDisable of a plan made from a
\* validated desired state and an inferred current state carries a service
\* name and a runlevel that are not empty, so Apply passes its own check of
\* the fields
C27_ServiceActionsCarryNameAndRunlevel ==
  \A k \in DOMAIN plan :
    plan[k].kind \in {"ServiceEnable", "ServiceDisable"} =>
      /\ ~IsBlank(plan[k].ServiceName)
      /\ ~IsBlank(plan[k].Runlevel)
      /\ ~FieldPrerequisiteFails(plan[k])

\* the part of C27 that the code keeps: the actions that take their
\* runlevel from the inferred current state
ServiceDisableCarriesRunlevel ==
  \A k \in DOMAIN plan :
    plan[k].kind = "ServiceDisable" =>
      ~IsBlank(plan[k].ServiceName) /\ plan[k].Runlevel \in ValidRunlevels

\* the audit reports the file of the path as deleted (status X)
ReportedDeleted(path) ==
  \E j \in DOMAIN current.Configs :
    current.Configs[j].Path = path /\ current.Configs[j].Deleted

\* C28: every FileUpdate, FileChmod and FileChown of a plan is on a path
\* whose current entry is not marked deleted, a file that is on the disk
\* when the plan is made, and a declared config whose file the audit
\* reports as deleted gets a FileCreate
C28_NoChangeOfDeletedFile ==
  PlanReturned =>
    /\ \A k \in DOMAIN plan :
         plan[k].kind \in {"FileUpdate", "FileChmod", "FileChown"} =>
           /\ ~ReportedDeleted(plan[k].Path)
           /\ sys.files[plan[k].Path].exists
    /\ \A i \in DOMAIN desired.Configs :
         (ReportedDeleted(desired.Configs[i].Path) /\ ~PlanIgnored(desired.Configs[i].Path))
           => \E k \in DOMAIN plan :
                plan[k].kind = "FileCreate" /\ plan[k].Path = desired.Configs[i].Path

(***************************************************************************)
(* summit dump (cmd): the inferred state is printed.                       *)
(***************************************************************************)
\* dumpCmd.RunE without --preview-ignores: the state is inferred, services
\* in no runlevel are left out unless --all-services is given, and the
\* state, the ignored files (--show-ignored) and the warning of the raw
\* mode are printed
Dump ==
  /\ pc = "dump"
  /\ \E inferErr \in {"", "world", "audit"}, whoOwnsErr \in BOOLEAN :
       LET io == [inferErr |-> inferErr, whoOwnsErr |-> whoOwnsErr]
           r == InferSystemState(sys, io, dumpRaw)
           filteredServices ==
             SelectSeq(r.state.Services, LAMBDA svc : svc.Enabled \/ svc.Runlevel # "")
       IN /\ cmdLog' = cmdLog \o InferCommands(sys, io)
          /\ pc' = "done"
          /\ IF r.err
             THEN /\ result' = "infer"
                  /\ UNCHANGED <<current, ignored>>
             ELSE /\ result' = "ok"
                  /\ current' = IF dumpAllServices THEN r.state
                                ELSE [r.state EXCEPT !.Services = filteredServices]
                  /\ ignored' = IF dumpShowIgnored THEN r.ignored ELSE <<>>
  /\ UNCHANGED <<sys, sys0, verb, desired, prune, plan, idx, completedActions, applyLog,
                 rollbackLog, rollbackErrs, applyErrs, err>>
  /\ UNCHANGED <<dumpRaw, dumpAllServices, dumpShowIgnored>>
  /\ UNCHANGED loadVars

\* hosts without accounts, with two init scripts of which one may be
\* enabled; at most one of the paths holds a file that differs from its
\* package
DumpHosts ==
  {[h EXCEPT !.initd = {"sshd", "crond"}, !.enabled = e] :
     h \in {x \in DiffHosts : x.users = {}}, e \in {{}, {<<"sshd", "default">>}}}

InitDump ==
  /\ sys \in DumpHosts
  /\ sys0 = sys
  /\ verb = "dump"
  /\ pc = "dump"
  /\ dumpRaw \in BOOLEAN
  /\ dumpAllServices \in BOOLEAN
  /\ dumpShowIgnored \in BOOLEAN
  /\ ignored = <<>>
  /\ desired = EmptyState
  /\ current = EmptyState
  /\ prune = FALSE
  /\ plan = <<>>
  /\ idx = 1
  /\ completedActions = <<>>
  /\ applyLog = <<>>
  /\ rollbackLog = <<>>
  /\ rollbackErrs = {}
  /\ applyErrs = {}
  /\ cmdLog = <<>>
  /\ err = ""
  /\ result = "none"
  /\ LoadIdle

NextDump == Dump

SpecDump == InitDump /\ [][NextDump]_vars

(***************************************************************************)
(* Claims about summit dump (checked under SpecDump).                      *)
(***************************************************************************)
Dumped == pc = "done" /\ result = "ok"

\* the files of the host that `apk audit` reports
AuditedPaths == {path \in DOMAIN sys.files : AuditLine(sys, path) # <<>>}

\* C24: the state inferred in raw mode (dump --raw) lists among its
\* configs every audited file of the intrinsic-ignore set
C24_RawDumpListsIntrinsicFiles ==
  (Dumped /\ dumpRaw) =>
    \A path \in AuditedPaths :
      IntrinsicIgnoreSet(path) =>
        \E j \in DOMAIN current.Configs : current.Configs[j].Path = path

\* what the raw mode does change: no ignored file is reported
RawDumpReportsNoIgnoredFile == (Dumped /\ dumpRaw) => ignored = <<>>

\* the flag has no part in the configs: every dump lists exactly the
\* audited files outside the paths listSystemConfigs skips
DumpListsUnskippedFiles ==
  Dumped =>
    {current.Configs[j].Path : j \in DOMAIN current.Configs}
      = {path \in AuditedPaths : ~skippedByListSystemConfigs(path)}

(***************************************************************************)
(* LoadConfig over a tree of documents with includes (pkg/config).         *)
(***************************************************************************)
\* the file name given to LoadConfig, relative to the working directory
RootFile == "summit.yaml"

LoadFails(message) ==
  /\ pc' = "done"
  /\ result' = "config"
  /\ err' = message
  /\ stack' = <<>>
  /\ UNCHANGED desired

\* the end of LoadConfig: Validate, Sort, return; a command that called
\* it goes on to infer the current state
LoadReturns(cfg) ==
  IF Validate(cfg) # {}
  THEN LoadFails("configuration validation failed")
  ELSE /\ IF verb = "load"
          THEN pc' = "done" /\ result' = "ok"
          ELSE pc' = "infer" /\ UNCHANGED result
       /\ desired' \in Sort(cfg)
       /\ stack' = <<>>
       /\ UNCHANGED err

\* one call of processIncludesRecursive: its arguments, the position of its
\* loop and its result so far
Frame(cfg, baseFile) == [cfg |-> cfg, baseFile |-> baseFile, i |-> 1, result |-> EmptyState]

\* LoadConfig up to the call of processIncludes
LoadRoot ==
  /\ pc = "loadRoot"
  /\ LET r == loadConfigFile(fs, RootFile)
     IN IF r.err # "" THEN LoadFails(r.err)
        ELSE IF validateIncludes(r.cfg.Includes) # {}
        THEN LoadFails("configuration validation failed: include path cannot be empty")
        ELSE IF Len(r.cfg.Includes) > 0
        THEN /\ pc' = "enter"
             /\ stack' = <<Frame(r.cfg, RootFile)>>
             /\ UNCHANGED <<desired, err, result>>
        ELSE LoadReturns(StateOf(r.cfg))
  /\ UNCHANGED <<sys, sys0, verb, current, prune, plan, idx, completedActions, applyLog,
                 rollbackLog, rollbackErrs, applyErrs, cmdLog, fs, visited, loaded>>
  /\ UNCHANGED dumpVars

\* processIncludesRecursive is entered: "Track this file to prevent cycles"
EnterFile ==
  /\ pc = "enter"
  /\ LET top == stack[Len(stack)]
         absBase == Abs(top.baseFile)
     IN IF absBase \in visited
        THEN /\ LoadFails(circularIncludeError(top.baseFile))
             /\ UNCHANGED visited
        ELSE /\ visited' = visited \cup {absBase}
             /\ pc' = "include"
             /\ UNCHANGED <<stack, desired, err, result>>
  /\ UNCHANGED <<sys, sys0, verb, current, prune, plan, idx, completedActions, applyLog,
                 rollbackLog, rollbackErrs, applyErrs, cmdLog, fs, loaded>>
  /\ UNCHANGED dumpVars

\* one turn of the loop over cfg.Includes, up to the recursive call or the merge
IncludeStep ==
  /\ pc = "include"
  /\ LET top == stack[Len(stack)]
     IN /\ top.i <= Len(top.cfg.Includes)
        /\ LET includePath == top.cfg.Includes[top.i]
               resolvedPath == resolveIncludePath(top.baseFile, includePath)
               r == loadConfigFile(fs, resolvedPath)
           IN IF r.err # ""
              THEN LoadFails("failed to load include '" \o includePath \o "': " \o r.err)
              ELSE IF Len(r.cfg.Includes) > 0
              THEN /\ stack' = Append(stack, Frame(r.cfg, resolvedPath))
                   /\ pc' = "enter"
                   /\ UNCHANGED <<desired, err, result>>
              ELSE /\ \E merged \in mergeConfigs(top.result, StateOf(r.cfg)) :
                        stack' = [stack EXCEPT ![Len(stack)] =
                                    [top EXCEPT !.result = merged, !.i = top.i + 1]]
                   /\ UNCHANGED <<pc, desired, err, result>>
  /\ UNCHANGED <<sys, sys0, verb, current, prune, plan, idx, completedActions, applyLog,
                 rollbackLog, rollbackErrs, applyErrs, cmdLog, fs, visited, loaded>>
  /\ UNCHANGED dumpVars

\* the loop is over: the file's own content is merged on top and the call
\* returns, to the loop of the including file or to LoadConfig
ReturnFromFile ==
  /\ pc = "include"
  /\ LET top == stack[Len(stack)]
     IN /\ top.i > Len(top.cfg.Includes)
        /\ \E own \in mergeConfigs(top.result, StateOf(top.cfg)) :
             IF Len(stack) = 1
             THEN LoadReturns(own)
             ELSE LET parent == stack[Len(stack) - 1]
                  IN /\ \E merged \in mergeConfigs(parent.result, own) :
                          stack' = [SubSeq(stack, 1, Len(stack) - 1) EXCEPT ![Len(stack) - 1] =
                                      [parent EXCEPT !.result = merged, !.i = parent.i + 1]]
                     /\ UNCHANGED <<pc, desired, err, result>>
  /\ UNCHANGED <<sys, sys0, verb, current, prune, plan, idx, completedActions, applyLog,
                 rollbackLog, rollbackErrs, applyErrs, cmdLog, fs, visited, loaded>>
  /\ UNCHANGED dumpVars

\* LoadConfig is called once more on the same documents; what the call
\* before returned is kept for comparison
LoadAgain ==
  /\ pc = "done"
  /\ Len(loaded) < MaxLoads - 1
  /\ loaded' = Append(loaded, [result |-> result, err |-> err, desired |-> desired])
  /\ pc' = "loadRoot"
  /\ stack' = <<>>
  /\ visited' = {}
  /\ desired' = EmptyState
  /\ err' = ""
  /\ result' = "none"
  /\ UNCHANGED <<sys, sys0, verb, current, prune, plan, idx, completedActions, applyLog,
                 rollbackLog, rollbackErrs, applyErrs, cmdLog, fs>>
  /\ UNCHANGED dumpVars

\* the include paths a document may list
RootIncludes ==
  {"base.yaml", "roles/web.yaml", "./summit.yaml", "/etc/summit/summit.yaml",
   "missing.yaml", " "}

Document(includes, state) == [Includes |-> includes] @@ state

\* the root document, base.yaml beside it and web.yaml in the directory
\* roles, each with its own content and include list
LoadFiles ==
  LET rootState ==
        [EmptyState EXCEPT !.Packages = <<PackageState("vim")>>,
                           !.Users = <<UserState("alice", <<"wheel">>, "")>>,
                           !.Configs = <<DesiredConfig("/etc/motd", "root", "", "", "")>>]
      baseState ==
        [EmptyState EXCEPT !.Packages = <<PackageState("curl"), PackageState("vim")>>,
                           !.Users = <<UserState("alice", <<"dev">>, "")>>,
                           !.Configs = <<DesiredConfig("/etc/motd", "base", "0644", "", ""),
                                         DesiredConfig("/etc/hosts", "base", "", "", "")>>,
                           !.IgnoredConfigs = <<"/etc/ssh/**">>]
      webState ==
        [EmptyState EXCEPT !.Packages = <<PackageState("nginx")>>,
                           !.Services = <<ServiceState("nginx", TRUE, "default")>>,
                           !.Configs = <<DesiredConfig("/etc/hosts", "web", "0600", "", "")>>]
  IN {[p \in {"/etc/summit/summit.yaml", "/etc/summit/base.yaml",
              "/etc/summit/roles/web.yaml"} |->
         IF p = "/etc/summit/summit.yaml" THEN Document(ri, rootState)
         ELSE IF p = "/etc/summit/base.yaml" THEN Document(bi, baseState)
         ELSE Document(wi, webState)] :
        ri \in UNION {[1..k -> RootIncludes] : k \in 0..MaxIncludes},
        bi \in {<<>>, <<"roles/web.yaml">>, <<"summit.yaml">>, <<"base.yaml">>},
        wi \in {<<>>, <<"../base.yaml">>, <<"web.yaml">>, <<"/etc/summit/summit.yaml">>,
                <<"../summit.yaml">>, <<"missing.yaml">>}}

InitLoad ==
  /\ fs \in LoadFiles
  /\ stack = <<>>
  /\ visited = {}
  /\ loaded = <<>>
  /\ DumpIdle
  /\ pc = "loadRoot"
  /\ desired = EmptyState
  /\ err = ""
  /\ result = "none"
  /\ sys = EmptyHost
  /\ sys0 = sys
  /\ verb = "load"
  /\ current = EmptyState
  /\ prune = FALSE
  /\ plan = <<>>
  /\ idx = 1
  /\ completedActions = <<>>
  /\ applyLog = <<>>
  /\ rollbackLog = <<>>
  /\ rollbackErrs = {}
  /\ applyErrs = {}
  /\ cmdLog = <<>>

NextLoad ==
  \/ LoadRoot
  \/ EnterFile
  \/ IncludeStep
  \/ ReturnFromFile
  \/ LoadAgain

SpecLoad == InitLoad /\ [][NextLoad]_vars

(***************************************************************************)
(* Claims about LoadConfig (checked under SpecLoad).                       *)
(***************************************************************************)
\* the include graph: the documents a document's include list names
IncludedBy(file) ==
  IF file \in DOMAIN fs
  THEN {Abs(resolveIncludePath(file, fs[file].Includes[k])) : k \in DOMAIN fs[file].Includes}
  ELSE {}

RECURSIVE IncludeClosure(_, _)
IncludeClosure(S, k) ==
  IF k = 0 THEN S ELSE IncludeClosure(S \cup UNION {IncludedBy(n) : n \in S}, k - 1)

\* the paths reached from the file along one include or more
ReachableFrom(file) == IncludeClosure(IncludedBy(file), Cardinality(DOMAIN fs))

\* the include graph of the root document contains a directed cycle
CycleReachable ==
  \E n \in {Abs(RootFile)} \cup ReachableFrom(Abs(RootFile)) : n \in ReachableFrom(n)

\* every path the include graph of the root names is a document that loads
IncludesLoadable == ({Abs(RootFile)} \cup ReachableFrom(Abs(RootFile))) \subseteq DOMAIN fs

\* C15: on a root document whose include graph contains a cycle, LoadConfig
\* returns an error whose message contains "circular"
C15_CycleReportedCircular ==
  (pc = "done" /\ CycleReachable) => (result = "config" /\ Contains(err, "circular"))

\* the steps LoadConfig can still take are bounded by this number: every
\* document not yet visited may bring one more call and its include list,
\* every call in progress has the rest of its loop and its return to do
RECURSIVE LoopWork(_)
LoopWork(frames) ==
  IF frames = <<>> THEN 0
  ELSE 2 * (Len(frames[1].cfg.Includes) + 1 - frames[1].i) + 1 + LoopWork(Tail(frames))

LoadMeasure ==
  LET perDocument == 2 * (MaxIncludes + 1) + 4
      perCall == perDocument * (Cardinality(DOMAIN fs) + 2) + 1
      entering == IF pc = "enter" THEN 1 ELSE 0
      thisCall ==
        IF pc = "done" THEN 0
        ELSE IF pc = "loadRoot" THEN perDocument * (Cardinality(DOMAIN fs) + 2)
        ELSE perDocument * (Cardinality(DOMAIN fs) + 1 - Cardinality(visited) - entering)
             + LoopWork(stack) + entering
  IN perCall * (MaxLoads - 1 - Len(loaded)) + thisCall

\* C15: on a root document whose include graph contains a cycle, LoadConfig
\* terminates (every step takes the bound on the steps left down, and the
\* bound is never negative), returns an error and no merged state, and the
\* message of the error contains "circular" when every included path names
\* a document that loads
C15_CycleEndsInError ==
  /\ [][LoadMeasure' < LoadMeasure]_vars
  /\ [](LoadMeasure >= 0)
  /\ []((pc = "done" /\ CycleReachable) =>
          /\ result = "config"
          /\ desired = EmptyState
          /\ IncludesLoadable => Contains(err, "circular"))

\* a cycle over more than one document was reported
C15_Witness ==
  /\ pc = "done"
  /\ CycleReachable
  /\ IncludesLoadable
  /\ Cardinality(visited) >= 2
  /\ Abs(RootFile) \notin IncludedBy(Abs(RootFile))
  /\ Contains(err, "circular")

\* the documents of the include tree of a file in the order their content
\* is merged, the lowest priority first: the includes of a document in
\* listed order, each with its own tree, and then the document itself
RECURSIVE MergeOrder(_)
MergeOrder(file) ==
  LET includes == fs[file].Includes
      RECURSIVE each(_)
      each(k) ==
        IF k > Len(includes) THEN <<>>
        ELSE MergeOrder(Abs(resolveIncludePath(file, includes[k]))) \o each(k + 1)
  IN each(1) \o <<file>>

\* the documents of the tree that define the path
DefinedIn(path) ==
  LET order == MergeOrder(Abs(RootFile))
  IN {k \in DOMAIN order : \E i \in DOMAIN fs[order[k]].Configs :
                             fs[order[k]].Configs[i].Path = path}

\* the entry for the path in the document of the highest priority that
\* defines it
WinningConfig(path) ==
  LET order == MergeOrder(Abs(RootFile))
      top == CHOOSE k \in DefinedIn(path) : \A l \in DefinedIn(path) : l <= k
      configs == fs[order[top]].Configs
      last == CHOOSE i \in DOMAIN configs :
                /\ configs[i].Path = path
                /\ \A j \in DOMAIN configs : configs[j].Path = path => j <= i
  IN configs[last]

LoadSucceeded == pc = "done" /\ result = "ok"

\* C21: a config path defined in several documents of an include tree has
\* exactly one entry in the merged desired state, with the value of the
\* document of the highest priority: the including document over the
\* documents it includes, a later-listed include over an earlier-listed one
C21_HighestPriorityConfigWins ==
  LoadSucceeded =>
    \A path \in {"/etc/motd", "/etc/hosts"} :
      LET order == MergeOrder(Abs(RootFile))
          entries == {i \in DOMAIN desired.Configs : desired.Configs[i].Path = path}
      IN Cardinality({order[k] : k \in DefinedIn(path)}) >= 2 =>
           /\ Cardinality(entries) = 1
           /\ \A i \in entries : desired.Configs[i] = WinningConfig(path)

\* two included documents define a path that the root leaves alone, and
\* the later-listed one is not the one a fixed order of names would pick
C21_Witness ==
  /\ LoadSucceeded
  /\ fs[Abs(RootFile)].Includes = <<"roles/web.yaml", "base.yaml">>
  /\ fs["/etc/summit/base.yaml"].Includes = <<>>
  /\ \E i \in DOMAIN desired.Configs :
       desired.Configs[i] = DesiredConfig("/etc/hosts", "base", "", "", "")
  /\ \E i \in DOMAIN desired.Configs :
       desired.Configs[i] = DesiredConfig("/etc/motd", "root", "", "", "")

\* the list is in ascending order of the key, equal keys allowed
Ascending(keys) == \A i, j \in DOMAIN keys : i < j => ~StrLess(keys[j], keys[i])

\* C22: a second LoadConfig on the same documents returns a desired state
\* equal to the first list by list and element by element, group lists
\* included, and the lists of a loaded state are sorted by their keys
C22_LoadConfigDeterministic ==
  LoadSucceeded =>
    /\ \A k \in DOMAIN loaded :
         /\ loaded[k].result = "ok"
         /\ loaded[k].desired.Packages = desired.Packages
         /\ loaded[k].desired.Services = desired.Services
         /\ loaded[k].desired.Users = desired.Users
         /\ loaded[k].desired.Configs = desired.Configs
         /\ loaded[k].desired.UserPackages = desired.UserPackages
         /\ loaded[k].desired.IgnoredConfigs = desired.IgnoredConfigs
    /\ Ascending([k \in DOMAIN desired.Packages |-> desired.Packages[k].Name])
    /\ Ascending([k \in DOMAIN desired.Services |-> desired.Services[k].Name])
    /\ Ascending([k \in DOMAIN desired.Users |-> desired.Users[k].Name])
    /\ Ascending([k \in DOMAIN desired.Configs |-> desired.Configs[k].Path])
    /\ Ascending([k \in DOMAIN desired.UserPackages |-> desired.UserPackages[k].User])

\* two calls return the same state but for the order inside the group lists
LoadsEqualUpToGroupOrder ==
  LoadSucceeded =>
    \A k \in DOMAIN loaded :
      /\ loaded[k].result = "ok"
      /\ [loaded[k].desired EXCEPT !.Users = <<>>] = [desired EXCEPT !.Users = <<>>]
      /\ Len(loaded[k].desired.Users) = Len(desired.Users)
      /\ \A i \in DOMAIN desired.Users :
           /\ loaded[k].desired.Users[i].Name = desired.Users[i].Name
           /\ Range(loaded[k].desired.Users[i].Groups) = Range(desired.Users[i].Groups)

\* C26: LoadConfig reports a circular include only if the include graph of
\* the root document contains a directed cycle; a document reached along
\* two paths or listed twice is no cycle
C26_CircularOnlyOnCycle ==
  (pc = "done" /\ Contains(err, "circular")) => CycleReachable

(***************************************************************************)
(* summit diff on a document with an include: LoadConfig with its merge,   *)
(* then inference and the plan.                                            *)
(***************************************************************************)
\* the root document includes base.yaml; each of the two declares services
ComposeFiles ==
  {[p \in {"/etc/summit/summit.yaml", "/etc/summit/base.yaml"} |->
      IF p = "/etc/summit/summit.yaml"
      THEN Document(<<"base.yaml">>, [EmptyState EXCEPT !.Services = top])
      ELSE Document(<<>>, [EmptyState EXCEPT !.Services = low])] :
     top \in {<<>>, <<ServiceState("nginx", FALSE, "")>>,
              <<ServiceState("nginx", TRUE, "boot")>>,
              <<ServiceState("nginx", TRUE, "default")>>,
              <<ServiceState("nginx", FALSE, "default")>>},
     low \in {<<ServiceState("nginx", TRUE, "default")>>,
              <<ServiceState("nginx", TRUE, "boot")>>,
              <<ServiceState("nginx", FALSE, "")>>,
              <<ServiceState("sshd", TRUE, "default"), ServiceState("nginx", FALSE, "default")>>}}

ComposeHosts ==
  {[EmptyHost EXCEPT !.initd = {"nginx", "sshd"}, !.enabled = e] :
     e \in {{}, {<<"nginx", "default">>}, {<<"nginx", "boot">>, <<"sshd", "default">>}}}

InitCompose ==
  /\ fs \in ComposeFiles
  /\ sys \in ComposeHosts
  /\ sys0 = sys
  /\ verb = "diff"
  /\ pc = "loadRoot"
  /\ stack = <<>>
  /\ visited = {}
  /\ loaded = <<>>
  /\ DumpIdle
  /\ desired = EmptyState
  /\ current = EmptyState
  /\ prune = FALSE
  /\ plan = <<>>
  /\ idx = 1
  /\ completedActions = <<>>
  /\ applyLog = <<>>
  /\ rollbackLog = <<>>
  /\ rollbackErrs = {}
  /\ applyErrs = {}
  /\ cmdLog = <<>>
  /\ err = ""
  /\ result = "none"

NextCompose ==
  \/ LoadRoot
  \/ EnterFile
  \/ IncludeStep
  \/ ReturnFromFile
  \/ InferStep
  \/ CalculatePlanStep
  \/ Preview

SpecCompose == InitCompose /\ [][NextCompose]_vars

(***************************************************************************)
(* Claims about merged services (checked under SpecCompose).               *)
(***************************************************************************)
\* the names a document declares as services
DeclaredServices(file) == {fs[file].Services[k].Name : k \in DOMAIN fs[file].Services}

\* the last declaration of the name in the document
Declaration(file, name) ==
  LET services == fs[file].Services
      last == CHOOSE i \in DOMAIN services :
                /\ services[i].Name = name
                /\ \A j \in DOMAIN services : services[j].Name = name => j <= i
  IN services[last]

\* the service actions of the plan on the name
PlannedFor(name) ==
  {plan[k] : k \in {j \in DOMAIN plan :
                      /\ plan[j].kind \in {"ServiceEnable", "ServiceDisable"}
                      /\ plan[j].ServiceName = name}}

\* C29: for a service name declared by an included document and by the
\* document including it, the plan's action is the one that the including
\* document's declaration gives against the current state: enabling in
\* its runlevel, disabling, or nothing
C29_IncludingDocumentDecidesService ==
  PlanReturned =>
    \A name \in DeclaredServices("/etc/summit/summit.yaml")
                  \cap DeclaredServices("/etc/summit/base.yaml") :
      LET top == Declaration("/etc/summit/summit.yaml", name)
      IN \A i \in DOMAIN current.Services :
           current.Services[i].Name = name =>
             PlannedFor(name) =
               IF top.Enabled /\ ~current.Services[i].Enabled
               THEN {ServiceEnableAction(name, top.Runlevel)}
               ELSE IF ~top.Enabled /\ current.Services[i].Enabled
               THEN {ServiceDisableAction(name, current.Services[i].Runlevel)}
               ELSE {}

\* the case the code keeps: both documents name the same runlevel
SameRunlevelIncludingDocumentDecides ==
  (\A name \in DeclaredServices("/etc/summit/summit.yaml")
                 \cap DeclaredServices("/etc/summit/base.yaml") :
     Declaration("/etc/summit/summit.yaml", name).Runlevel
       = Declaration("/etc/summit/base.yaml", name).Runlevel)
    => C29_IncludingDocumentDecidesService

(***************************************************************************)
(* summit apply run a second time on the host the first run left.          *)
(***************************************************************************)
\* the second run's InferSystemState, after an apply that returned nil
Reinfer ==
  /\ pc = "done"
  /\ verb = "apply"
  /\ result = "ok"
  /\ \E inferErr \in {"", "world", "groups", "audit"}, whoOwnsErr \in BOOLEAN :
       LET io == [inferErr |-> inferErr, whoOwnsErr |-> whoOwnsErr]
           r == InferSystemState(sys, io, FALSE)
       IN /\ cmdLog' = cmdLog \o InferCommands(sys, io)
          /\ IF r.err
             THEN /\ result' = "infer"
                  /\ UNCHANGED <<pc, current>>
             ELSE /\ pc' = "replan"
                  /\ current' = r.state
                  /\ UNCHANGED result
  /\ UNCHANGED <<sys, sys0, verb, desired, prune, plan, idx, completedActions, applyLog,
                 rollbackLog, rollbackErrs, applyErrs, err>>
  /\ UNCHANGED <<loadVars, dumpVars>>

\* the second run's CalculatePlan, same desired state and prune setting
Replan ==
  /\ pc = "replan"
  /\ \E groupErr \in BOOLEAN, listReply \in {"ok", "error", "garbage"} :
       LET io == PlanIO(sys, groupErr, listReply)
           r == CalculatePlan(desired, current, io, prune)
       IN /\ cmdLog' = cmdLog \o CalculatePlanCommands(desired, current, io)
          /\ IF r.err # ""
             THEN /\ pc' = "done"
                  /\ result' = r.err
                  /\ UNCHANGED plan
             ELSE /\ pc' = "replanned"
                  /\ plan' \in r.plans
                  /\ UNCHANGED result
  /\ UNCHANGED <<sys, sys0, verb, desired, current, prune, idx, completedActions, applyLog,
                 rollbackLog, rollbackErrs, applyErrs, err>>
  /\ UNCHANGED <<loadVars, dumpVars>>

NextRerun ==
  \/ LoadConfigStep
  \/ InferStep
  \/ CalculatePlanStep
  \/ Preview
  \/ ExecuteApply
  \/ ExecuteDone
  \/ RollbackStep
  \/ RollbackDone
  \/ Reinfer
  \/ Replan

SpecRerun == InitRun /\ [][NextRerun]_vars

(***************************************************************************)
(* Claims about a second run (checked under SpecRerun).                    *)
(***************************************************************************)
\* C30: after an apply in which every Apply succeeded, inferring the state
\* again and computing the plan again for the same desired state and the
\* same prune setting gives the empty plan
C30_SuccessfulApplyReachesFixedPoint ==
  pc = "replanned" => plan = <<>>

\* the case the code keeps: a desired state without per-user packages
FixedPointWithoutUserPackages ==
  (pc = "replanned" /\ desired.UserPackages = <<>>) => plan = <<>>

====
